---- MODULE Spec2Model ----
(***************************************************************************)
(* Model of the phase-based calibration controller                         *)
(* (printer_calibration/controller.py) together with the analysis helpers  *)
(* it calls (analysis.py), the configuration (config.py) and the profile   *)
(* exporter (icc.py).                                                      *)
(*                                                                         *)
(* Units.  Lab coordinates, tolerances, ranges and colour differences are  *)
(* integers in quarter units (stored value = 4 x the source's float), so   *)
(* that every threshold of config.py (36.5, 3.5, 0.5, ...) is an integer.  *)
(* Ink steps are plain integers as in the source.  Square roots are not    *)
(* taken: an operator that returns a distance in the source returns the    *)
(* squared distance here, and each comparison is made between squares,     *)
(* which keeps the order of the non-negative quantities compared.          *)
(*                                                                         *)
(* Optional values (Python's None) are sets: None is {} and a present      *)
(* value v is {v}.                                                         *)
(***************************************************************************)
EXTENDS Integers, Sequences, FiniteSets, TLC

(***************************************************************************)
(* Bounds of the model.                                                    *)
(***************************************************************************)
\* longest calibration history explored (Phase 1 has no iteration cap)
MaxHistory == 3
\* the advisor is applied to readings with |a| <= MaxA and |b| <= MaxB
\* (quarter units): beyond twice the tolerances 8 and 16 of the anchor patch
MaxA == 18
MaxB == 36
\* most columns in the header of a measurement file
MaxColumns == 5
MaxPending == 2

(***************************************************************************)
(* Generic helpers.                                                        *)
(***************************************************************************)
None == {}

Some(v) == {v}

Val(o) == CHOOSE v \in o : TRUE

Abs(x) == IF x < 0 THEN -x ELSE x

\* numpy.sign
sign(x) == IF x > 0 THEN 1 ELSE IF x < 0 THEN -1 ELSE 0

\* Python's empty dict {}
EmptyDict == [k \in {} |-> 0]

\* truth value of a Python dict: false only for the empty dict
DictTruthy(d) == DOMAIN d # {}

(***************************************************************************)
(* config.py (quarter units for Lab quantities).                           *)
(***************************************************************************)
Phase1Targets ==
    [patch_name |-> "RGB100",
     L_range |-> <<146, 158>>,
     a_range |-> <<-8, 8>>,
     b_range |-> <<-16, 16>>]

Phase2Targets ==
    [rgb150_patch_name |-> "RGB150",
     rgb150_a_tol |-> 8,
     rgb150_b_tol |-> 16,
     rgb200_patch_name |-> "RGB200",
     rgb200_a_tol |-> 8,
     rgb200_b_tol |-> 14]

Phase4Targets ==
    [mean_delta_e |-> 52,
     percentile_95_delta_e |-> 96,
     max_delta_e |-> 108,
     skin_tone_delta_e |-> 48,
     skin_tone_names |-> {"Skin1", "Skin2"}]

Convergence == [min_abs_change |-> 2]

InkSteps == [coarse |-> 4, fine |-> 1]

\* names of config.COLOUR_PATCHES
ColourPatchNames ==
    {"N0", "N64", "N128", "N192", "N224", "N240", "N248", "N255",
     "R", "G", "B", "C", "M", "Y", "R+64", "G+64", "B+64",
     "R-64", "G-64", "B-64", "Skin1", "Skin2", "Sky", "Leaf"}

(***************************************************************************)
(* analysis.py                                                             *)
(***************************************************************************)
\* rows of df whose "patch" equals patch_name, in order
RowsNamed(df, patch_name) == SelectSeq(df, LAMBDA r : r.patch = patch_name)

\* (L, a, b) of the first row named patch_name, or None
get_patch_lab(df, patch_name) ==
    LET patch == RowsNamed(df, patch_name)
    IN  IF patch = <<>> THEN None
        ELSE Some(<<patch[1].L, patch[1].a, patch[1].b>>)

\* squared Euclidean distance of two Lab triples
\* fault variant of get_lab_distance: the distance in the a*b* plane
get_lab_distance_ab(lab1, lab2) ==
      (lab1[2] - lab2[2]) * (lab1[2] - lab2[2])
    + (lab1[3] - lab2[3]) * (lab1[3] - lab2[3])

get_lab_distance(lab1, lab2) ==
      (lab1[1] - lab2[1]) * (lab1[1] - lab2[1])
    + (lab1[2] - lab2[2]) * (lab1[2] - lab2[2])
    + (lab1[3] - lab2[3]) * (lab1[3] - lab2[3])

\* fault variant of is_patch_within_target: the bounds are excluded
is_patch_within_target_exclusive(patch_lab, targets) ==
    /\ targets.L_range[1] < patch_lab[1] /\ patch_lab[1] < targets.L_range[2]
    /\ targets.a_range[1] < patch_lab[2] /\ patch_lab[2] < targets.a_range[2]
    /\ targets.b_range[1] < patch_lab[3] /\ patch_lab[3] < targets.b_range[2]

is_patch_within_target(patch_lab, targets) ==
    /\ targets.L_range[1] <= patch_lab[1] /\ patch_lab[1] <= targets.L_range[2]
    /\ targets.a_range[1] <= patch_lab[2] /\ patch_lab[2] <= targets.a_range[2]
    /\ targets.b_range[1] <= patch_lab[3] /\ patch_lab[3] <= targets.b_range[2]

\* fault variant of escalates: escalation already at exactly twice the tolerance
escalates_at_twice(a_err2, a_tol2, b_err2, b_tol2) ==
    Abs(a_err2) >= a_tol2 * 2 \/ Abs(b_err2) >= b_tol2 * 2

\* abs(a_err) > a_tol * 2 or abs(b_err) > b_tol * 2, on doubled quantities
escalates(a_err2, a_tol2, b_err2, b_tol2) ==
    Abs(a_err2) > a_tol2 * 2 \/ Abs(b_err2) > b_tol2 * 2

\* fault variant of escalate_channel: the coarse step scales the channel
\* value instead of replacing it
escalate_channel_scaled(value, steps) == value * steps.coarse

\* the body of the escalation loop: a non-zero channel becomes the coarse step
escalate_channel(value, steps) == IF value # 0 THEN steps.coarse ELSE value

\* fault variant of suggest_adjustment: the a-rule bumps M for an a-error
\* above the tolerance and C for one below
suggest_adjustment_a_swapped(patch_lab, targets, steps) ==
    LET a == patch_lab[2]
        b == patch_lab[3]
        a_err2 == 2 * a - (targets.a_range[1] + targets.a_range[2])
        b_err2 == 2 * b - (targets.b_range[1] + targets.b_range[2])
        a_tol2 == targets.a_range[2] - targets.a_range[1]
        b_tol2 == targets.b_range[2] - targets.b_range[1]
        M1 == IF a_err2 > a_tol2 THEN steps.fine ELSE 0
        C1 == IF a_err2 > a_tol2 THEN 0
              ELSE IF a_err2 < -a_tol2 THEN steps.fine ELSE 0
        C2 == IF b_err2 > b_tol2 THEN C1 + steps.fine ELSE C1
        M2 == IF b_err2 > b_tol2 THEN M1 + steps.fine ELSE M1
        Y2 == IF b_err2 > b_tol2 THEN 0
              ELSE IF b_err2 < -b_tol2 THEN steps.fine ELSE 0
        escalate == escalates(a_err2, a_tol2, b_err2, b_tol2)
        Esc(v) == IF escalate THEN escalate_channel(v, steps) ELSE v
    IN  [C |-> Esc(C2), M |-> Esc(M2), Y |-> Esc(Y2)]

\* suggest_adjustment works on doubled quantities so that the range centre
\* (lo + hi) / 2 and the half-width (hi - lo) / 2 stay integers:
\* a_err2 = 2 * a_err, a_tol2 = 2 * a_tol.
suggest_adjustment(patch_lab, targets, steps) ==
    LET a == patch_lab[2]
        b == patch_lab[3]
        a_err2 == 2 * a - (targets.a_range[1] + targets.a_range[2])
        b_err2 == 2 * b - (targets.b_range[1] + targets.b_range[2])
        a_tol2 == targets.a_range[2] - targets.a_range[1]
        b_tol2 == targets.b_range[2] - targets.b_range[1]
        C1 == IF a_err2 > a_tol2 THEN steps.fine ELSE 0
        M1 == IF a_err2 > a_tol2 THEN 0
              ELSE IF a_err2 < -a_tol2 THEN steps.fine ELSE 0
        C2 == IF b_err2 > b_tol2 THEN C1 + steps.fine ELSE C1
        M2 == IF b_err2 > b_tol2 THEN M1 + steps.fine ELSE M1
        Y2 == IF b_err2 > b_tol2 THEN 0
              ELSE IF b_err2 < -b_tol2 THEN steps.fine ELSE 0
        escalate == escalates(a_err2, a_tol2, b_err2, b_tol2)
        Esc(v) == IF escalate THEN escalate_channel(v, steps) ELSE v
    IN  [C |-> Esc(C2), M |-> Esc(M2), Y |-> Esc(Y2)]

\* config.COLOUR_PATCHES converted by colour.sRGB_to_Lab (D65), rounded to
\* quarter units; the conversion itself is the colour-science library's.
get_reference_lab_values ==
    [name \in ColourPatchNames |->
        CASE name = "N0"    -> <<0, 0, 0>>
          [] name = "N64"   -> <<108, 0, 0>>
          [] name = "N128"  -> <<214, 0, 0>>
          [] name = "N192"  -> <<311, 0, 0>>
          [] name = "N224"  -> <<357, 0, 0>>
          [] name = "N240"  -> <<379, 0, 0>>
          [] name = "N248"  -> <<390, 0, 0>>
          [] name = "N255"  -> <<400, 0, 0>>
          [] name = "R"     -> <<213, 320, 269>>
          [] name = "G"     -> <<351, -345, 333>>
          [] name = "B"     -> <<129, 317, -431>>
          [] name = "C"     -> <<364, -192, -57>>
          [] name = "M"     -> <<241, 393, -243>>
          [] name = "Y"     -> <<389, -86, 378>>
          [] name = "R+64"  -> <<229, 282, 179>>
          [] name = "G+64"  -> <<354, -317, 290>>
          [] name = "B+64"  -> <<165, 242, -372>>
          [] name = "R-64"  -> <<160, 259, 217>>
          [] name = "G-64"  -> <<271, -278, 269>>
          [] name = "B-64"  -> <<92, 256, -349>>
          [] name = "Skin1" -> <<295, 45, 166>>
          [] name = "Skin2" -> <<245, 72, 182>>
          [] name = "Sky"   -> <<317, -59, -85>>
          [] name = "Leaf"  -> <<202, -198, 180>>]

(***************************************************************************)
(* deltae.py                                                               *)
(***************************************************************************)
\* delta_e hands both triples to colour.delta_E(method="CIE 2000"), a
\* library outside the repository.  The model keeps what the callers rely
\* on: a non-negative number that is 0 for equal triples and grows with the
\* coordinate differences (here their sum, in quarter units).
delta_e(lab_meas, lab_ref) ==
      Abs(lab_meas[1] - lab_ref[1])
    + Abs(lab_meas[2] - lab_ref[2])
    + Abs(lab_meas[3] - lab_ref[3])

(***************************************************************************)
(* analysis.analyze_color_patches                                          *)
(***************************************************************************)
RECURSIVE SumSeq(_)
SumSeq(s) == IF s = <<>> THEN 0 ELSE Head(s) + SumSeq(Tail(s))

RECURSIVE MaxSeq(_)
MaxSeq(s) ==
    IF Len(s) = 1 THEN s[1]
    ELSE LET m == MaxSeq(Tail(s)) IN IF s[1] > m THEN s[1] ELSE m

\* insertion of v into the ascending sequence s
RECURSIVE InsertSorted(_, _)
InsertSorted(v, s) ==
    IF s = <<>> THEN <<v>>
    ELSE IF v <= Head(s) THEN <<v>> \o s
    ELSE <<Head(s)>> \o InsertSorted(v, Tail(s))

RECURSIVE SortAsc(_)
SortAsc(s) == IF s = <<>> THEN <<>> ELSE InsertSorted(Head(s), SortAsc(Tail(s)))

\* fault variant of percentile95_x20: the median (50th percentile) instead
\* of the 95th, multiplied by 20
percentile50_x20(values) ==
    LET v == SortAsc(values)
        n == Len(v)
        k == (10 * (n - 1)) \div 20
        r == (10 * (n - 1)) % 20
    IN  IF r = 0 THEN 20 * v[k + 1]
        ELSE 20 * v[k + 1] + r * (v[k + 2] - v[k + 1])

\* numpy.percentile(values, 95) with the default linear interpolation,
\* multiplied by 20: the rank is 0.95 * (n - 1) = k + r / 20, and the
\* percentile is v[k] + (r / 20) * (v[k + 1] - v[k]) on the sorted values
\* (0-based k).
percentile95_x20(values) ==
    LET v == SortAsc(values)
        n == Len(v)
        k == (19 * (n - 1)) \div 20
        r == (19 * (n - 1)) % 20
    IN  IF r = 0 THEN 20 * v[k + 1]
        ELSE 20 * v[k + 1] + r * (v[k + 2] - v[k + 1])

\* {row['patch']: (L, a, b) for row in df}: a later row replaces an earlier
\* one of the same name
measured_patches(df) ==
    [name \in {df[i].patch : i \in DOMAIN df} |->
        LET patch == RowsNamed(df, name)
        IN  <<patch[Len(patch)].L, patch[Len(patch)].a, patch[Len(patch)].b>>]

\* fault variant of delta_es: a patch without a reference is compared with
\* black instead of being skipped
delta_es_unskipped(df) ==
    LET reference_labs == get_reference_lab_values
        measured == measured_patches(df)
    IN  [name \in DOMAIN measured |->
            IF name \in DOMAIN reference_labs
            THEN delta_e(measured[name], reference_labs[name])
            ELSE delta_e(measured[name], <<0, 0, 0>>)]

\* delta_es: colour difference of every measured patch the reference table
\* knows
delta_es(df) ==
    LET reference_labs == get_reference_lab_values
        measured == measured_patches(df)
    IN  [name \in (DOMAIN measured) \cap (DOMAIN reference_labs) |->
            delta_e(measured[name], reference_labs[name])]

\* the values of a dict as a sequence (some order; the statistics do not
\* depend on it)
RECURSIVE DictValues(_)
DictValues(d) ==
    IF DOMAIN d = {} THEN <<>>
    ELSE LET k == CHOOSE x \in DOMAIN d : TRUE
         IN  <<d[k]>> \o DictValues([x \in (DOMAIN d) \ {k} |-> d[x]])

NoMatchReport == "No matching patches found between measurements and references."

\* fault variant of no_match_result: nothing to compare counts as a pass
no_match_passes == [passed |-> TRUE, report |-> [text |-> NoMatchReport]]

\* the early return when no measured patch is in the reference table
no_match_result == [passed |-> FALSE, report |-> [text |-> NoMatchReport]]

\* fault variant of all_checks: one passing check is enough
any_checks(mean_ok, p95_ok, max_ok, skin_ok) ==
    mean_ok \/ p95_ok \/ max_ok \/ skin_ok

\* passed = all([mean_ok, p95_ok, max_ok, skin_ok])
all_checks(mean_ok, p95_ok, max_ok, skin_ok) ==
    mean_ok /\ p95_ok /\ max_ok /\ skin_ok

\* the result (passed, report).  The report is a record of what the
\* formatted text shows: the overall verdict, the four check marks and the
\* four statistics (mean as sum and count, 95th percentile times 20).
analyze_color_patches(df, targets) ==
    LET des == delta_es(df)
    IN  IF DOMAIN des = {}
        THEN no_match_result
        ELSE
          LET de_values == DictValues(des)
              n == Len(de_values)
              sum_de == SumSeq(de_values)
              p95_de_x20 == percentile95_x20(de_values)
              max_de == MaxSeq(de_values)
              skin_patches == (DOMAIN des) \cap targets.skin_tone_names
              skin_de_values == DictValues([x \in skin_patches |-> des[x]])
              max_skin_de == IF skin_de_values # <<>> THEN MaxSeq(skin_de_values) ELSE 0
              mean_ok == sum_de <= targets.mean_delta_e * n
              p95_ok == p95_de_x20 <= targets.percentile_95_delta_e * 20
              max_ok == max_de <= targets.max_delta_e
              skin_ok == max_skin_de <= targets.skin_tone_delta_e
              passed == all_checks(mean_ok, p95_ok, max_ok, skin_ok)
          IN  [passed |-> passed,
               report |-> [text |-> "--- Phase 4 Colour Analysis ---",
                           overall |-> passed,
                           mean_ok |-> mean_ok, p95_ok |-> p95_ok,
                           max_ok |-> max_ok, skin_ok |-> skin_ok,
                           mean_de |-> <<sum_de, n>>,
                           p95_de_x20 |-> p95_de_x20,
                           max_de |-> max_de,
                           max_skin_de |-> max_skin_de]]

(***************************************************************************)
(* io.py                                                                   *)
(***************************************************************************)
\* A column name is a sequence of tokens, each a blank " " or a word:
\* " Patch " is <<" ", "Patch", " ">>.
\* str.lower() on a token
lower_token(token) ==
    CASE token = "Patch" -> "patch"
      [] token = "L" -> "l"
      [] token = "A" -> "a"
      [] token = "B_LAB" -> "b_lab"
      [] token = "Unnamed: 0" -> "unnamed: 0"
      [] OTHER -> token

\* str.strip(): the blanks at both ends are removed
RECURSIVE strip(_)
strip(col) ==
    IF col = <<>> THEN col
    ELSE IF Head(col) = " " THEN strip(Tail(col))
    ELSE IF col[Len(col)] = " " THEN strip(SubSeq(col, 1, Len(col) - 1))
    ELSE col

\* col.strip().lower()
column_key(col) == [i \in DOMAIN strip(col) |-> lower_token(strip(col)[i])]

CANONICAL_ANALYSIS_COLUMNS == {<<"patch">>, <<"L">>, <<"a">>, <<"b">>}

\* the canon dict of _normalize_columns
canon ==
    [key \in {<<"patch">>, <<"label">>, <<"l">>, <<"a_lab">>, <<"b_lab">>,
              <<"r">>, <<"g">>, <<"b">>} |->
        CASE key = <<"patch">> -> <<"patch">>
          [] key = <<"label">> -> <<"patch">>
          [] key = <<"l">> -> <<"L">>
          [] key = <<"a_lab">> -> <<"a">>
          [] key = <<"b_lab">> -> <<"b">>
          [] key = <<"r">> -> <<"r">>
          [] key = <<"g">> -> <<"g">>
          [] key = <<"b">> -> <<"b_rgb">>]

\* the rename mapping: original column name -> canonical name
_normalize_columns(columns) ==
    [col \in {c \in columns : column_key(c) \in DOMAIN canon} |->
        canon[column_key(col)]]

\* load_csv up to the check of the required columns, on the header of the
\* file: the columns of the frame it goes on with, or ValueError.  The
\* coercion and the dropping of rows follow the check and are left out.
load_csv(columns) ==
    LET unnamed == {c \in columns : c # <<>> /\ lower_token(c[1]) = "unnamed: 0"}
        kept == columns \ unnamed
        rename_map == _normalize_columns(kept)
        renamed == {IF c \in DOMAIN rename_map THEN rename_map[c] ELSE c :
                       c \in kept}
        missing_lab_cols == CANONICAL_ANALYSIS_COLUMNS \ renamed
    IN  IF missing_lab_cols # {}
        THEN [raised |-> "ValueError", columns |-> None]
        ELSE [raised |-> "", columns |-> Some(renamed)]

(***************************************************************************)
(* icc.py                                                                  *)
(***************************************************************************)
\* A file name is a sequence of segments, the last one being the extension
\* when there is one: "profile.ICC" is <<"profile", ".ICC">>.
\* str.lower() on a segment
lower(seg) == IF seg = ".ICC" THEN ".icc" ELSE seg

\* the name the profile is written to: ".icc" is appended unless the name
\* already ends with it, compared case-insensitively
icc_filename(filename) ==
    IF filename # <<>> /\ lower(filename[Len(filename)]) = ".icc"
    THEN filename
    ELSE Append(filename, ".icc")

ExportedMsg == "Successfully exported placeholder ICC profile to"
ExportFailedMsg == "Failed to export ICC profile:"

\* (success, message).  io_ok is the outcome of opening and writing the
\* file: any exception inside the try block is caught and reported.
build_and_export_icc(measurements_df, reference_labs, filename, io_ok) ==
    IF io_ok
    THEN [success |-> TRUE,
          message |-> [text |-> ExportedMsg,
                       adj |-> None, file |-> icc_filename(filename), report |-> None]]
    ELSE [success |-> FALSE,
          message |-> [text |-> ExportFailedMsg,
                       adj |-> None, file |-> <<>>, report |-> None]]

(***************************************************************************)
(* controller.py                                                           *)
(***************************************************************************)
PRECONDITION == "PRECONDITION"
PHASE_1_NEUTRAL_GREY == "PHASE_1_NEUTRAL_GREY"
PHASE_2_NEUTRAL_SLOPE == "PHASE_2_NEUTRAL_SLOPE"
PHASE_3_DRIVER_LOCK == "PHASE_3_DRIVER_LOCK"
PHASE_4_COLOR_ANALYSIS == "PHASE_4_COLOR_ANALYSIS"
PHASE_5_ICC_CONSTRUCTION == "PHASE_5_ICC_CONSTRUCTION"
COMPLETE == "COMPLETE"
ERROR == "ERROR"

CalibrationPhase ==
    {PRECONDITION, PHASE_1_NEUTRAL_GREY, PHASE_2_NEUTRAL_SLOPE,
     PHASE_3_DRIVER_LOCK, PHASE_4_COLOR_ANALYSIS, PHASE_5_ICC_CONSTRUCTION,
     COMPLETE, ERROR}

\* A returned message: its fixed text and, where the source formats a value
\* into it, that value (a suggested adjustment, a file name, a report).
Msg(text) ==
    [text |-> text, adj |-> None, file |-> <<>>, report |-> None, detail |-> ""]

LockedMsg ==
    "Driver adjustments are locked. No further measurements can be processed for tuning."
NoActionMsg == "No processing action defined for the current phase."
PatchNotFoundMsg == "Patch 'RGB100' not found in measurement data."
ConvergedOutsideMsg ==
    "Phase 1 Converged but outside target. This may indicate driver limitations. Freezing adjustments."
NoEffectiveAdjustmentMsg ==
    "No effective adjustment could be calculated, but patch is not within target."
SuggestionMsg == "Suggestion for next print:"
NeutralMissingMsg == "One or more neutral patches (RGB100, RGB150, RGB200) are missing."
SlopeFailedMsg == "Neutral slope validation failed. RGB150 or RGB200 are outside tolerance."
NotMonotonicMsg == "Neutral slope is not monotonic. Indicates driver limits."
NotMonotonicFreezingMsg ==
    "Neutral slope is not monotonic. Indicates driver limits. Freezing driver adjustments."
Phase2PassedMsg == "Phase 2 Passed: Neutral slope is valid. Driver adjustments are now locked."
AnalysisFailedMsg == "Colour patch analysis failed. See report for details."
WrongPhaseMsg == "Not in the correct phase to export an ICC profile."
NoDataMsg == "No valid measurement data available for export."

\* the patch names the f-strings put into the two missing-patch messages
patches_named_in(text) ==
    IF text = PatchNotFoundMsg THEN {Phase1Targets.patch_name}
    ELSE IF text = NeutralMissingMsg
    THEN {Phase1Targets.patch_name, Phase2Targets.rgb150_patch_name,
          Phase2Targets.rgb200_patch_name}
    ELSE {}

\* The controller object: the fields __init__ sets.  The configuration
\* fields are the immutable definitions above.
Controller(ph, hist, err, df) ==
    [phase |-> ph, history |-> hist,
     last_error_message |-> err, last_measurements_df |-> df]

\* CalibrationController.__init__
NewController == Controller(PRECONDITION, <<>>, "", None)

\* The outcome of a method call: the controller afterwards, the value
\* returned, the exception that escaped ("" when none; ret is then
\* Msg("")), and whether icc.build_and_export_icc was called.
Returned(c, ret) == [c |-> c, ret |-> ret, raised |-> "", icc_invoked |-> FALSE]

Raised(c, exc) == [c |-> c, ret |-> Msg(""), raised |-> exc, icc_invoked |-> FALSE]

get_current_phase(c) == c.phase

\* 4 x the squared error in the a*b* plane: (2 * a - (lo + hi)) is twice the
\* error against the mean of the range
\* fault variant of _get_phase1_error: the lightness counts as well
_get_phase1_error_with_L(patch_lab) ==
    LET L2 == 2 * patch_lab[1] - (Phase1Targets.L_range[1] + Phase1Targets.L_range[2])
        a2 == 2 * patch_lab[2] - (Phase1Targets.a_range[1] + Phase1Targets.a_range[2])
        b2 == 2 * patch_lab[3] - (Phase1Targets.b_range[1] + Phase1Targets.b_range[2])
    IN  L2 * L2 + a2 * a2 + b2 * b2

_get_phase1_error(patch_lab) ==
    LET a2 == 2 * patch_lab[2] - (Phase1Targets.a_range[1] + Phase1Targets.a_range[2])
        b2 == 2 * patch_lab[3] - (Phase1Targets.b_range[1] + Phase1Targets.b_range[2])
    IN  a2 * a2 + b2 * b2

\* fault variant of within_tolerance: a value exactly at the tolerance fails
within_tolerance_strict(lab, a_tol, b_tol) ==
    Abs(lab[2]) < a_tol /\ Abs(lab[3]) < b_tol

\* abs(lab[1]) <= a_tol and abs(lab[2]) <= b_tol of _process_phase2
within_tolerance(lab, a_tol, b_tol) ==
    Abs(lab[2]) <= a_tol /\ Abs(lab[3]) <= b_tol

\* fault variant of phase2_not_monotonic: a non-monotonic slope is an error
phase2_not_monotonic_error(c) ==
    Returned([c EXCEPT !.last_error_message = NotMonotonicMsg,
                       !.phase = ERROR],
             Msg(NotMonotonicFreezingMsg))

\* the branch of _process_phase2 taken when a sign flips
phase2_not_monotonic(c) ==
    Returned([c EXCEPT !.last_error_message = NotMonotonicMsg,
                       !.phase = PHASE_3_DRIVER_LOCK],
             Msg(NotMonotonicFreezingMsg))

\* fault variant of phase2_slope_failed: the phase becomes ERROR but no
\* message is stored
phase2_slope_failed_silent(c) ==
    Returned([c EXCEPT !.phase = ERROR], Msg(SlopeFailedMsg))

\* the branch of _process_phase2 taken when RGB150 or RGB200 is outside its
\* tolerances
phase2_slope_failed(c) ==
    Returned([c EXCEPT !.last_error_message = SlopeFailedMsg,
                       !.phase = ERROR],
             Msg(SlopeFailedMsg))

\* fault variant of phase2_passed: the message is returned but the phase
\* stays PHASE_2_NEUTRAL_SLOPE
phase2_passed_stays(c) == Returned(c, Msg(Phase2PassedMsg))

\* the closing lines of _process_phase2: the slope is valid
phase2_passed(c) ==
    Returned([c EXCEPT !.phase = PHASE_3_DRIVER_LOCK], Msg(Phase2PassedMsg))

_process_phase2(c, df) ==
    LET p1_lab == get_patch_lab(df, Phase1Targets.patch_name)
        p150_lab == get_patch_lab(df, Phase2Targets.rgb150_patch_name)
        p200_lab == get_patch_lab(df, Phase2Targets.rgb200_patch_name)
    IN  IF p1_lab = None \/ p150_lab = None \/ p200_lab = None
        THEN Returned([c EXCEPT !.last_error_message = NeutralMissingMsg,
                                !.phase = ERROR],
                      Msg(NeutralMissingMsg))
        ELSE
          LET p1 == Val(p1_lab)
              p150 == Val(p150_lab)
              p200 == Val(p200_lab)
              p150_ok == within_tolerance(p150, Phase2Targets.rgb150_a_tol,
                                          Phase2Targets.rgb150_b_tol)
              p200_ok == within_tolerance(p200, Phase2Targets.rgb200_a_tol,
                                          Phase2Targets.rgb200_b_tol)
          IN  IF ~(p150_ok /\ p200_ok)
              THEN phase2_slope_failed(c)
              ELSE IF \/ sign(p1[2]) * sign(p150[2]) < 0
                      \/ sign(p150[2]) * sign(p200[2]) < 0
                      \/ sign(p1[3]) * sign(p150[3]) < 0
                      \/ sign(p150[3]) * sign(p200[3]) < 0
              THEN phase2_not_monotonic(c)
              ELSE phase2_passed(c)

\* fault variant of history_append: the new entry replaces the history
history_replace(c, df, adjustment) ==
    [c EXCEPT !.history = <<[df |-> df, adj |-> adjustment]>>]

\* self.history.append((df, adjustment))
history_append(c, df, adjustment) ==
    [c EXCEPT !.history = Append(@, [df |-> df, adj |-> adjustment])]

\* fault variant of phase1_is_converged: only the distance test
phase1_is_converged_by_distance(lab, prev_lab) ==
    get_lab_distance(lab, prev_lab)
        < Convergence.min_abs_change * Convergence.min_abs_change

\* is_converged of _process_phase1 for a reading and the previous reading
\* of the history: moved less than min_abs_change, or the error grew
phase1_is_converged(lab, prev_lab) ==
    \/ get_lab_distance(lab, prev_lab)
          < Convergence.min_abs_change * Convergence.min_abs_change
    \/ _get_phase1_error(lab) > _get_phase1_error(prev_lab)

\* fault variant of phase1_zero_adjustment: a suggestion of all zeros counts
\* as no adjustment
phase1_zero_adjustment_by_value(adjustment) ==
    \A k \in DOMAIN adjustment : adjustment[k] = 0

\* `not adjustment`: a dict is false only when it has no keys
phase1_zero_adjustment(adjustment) == ~DictTruthy(adjustment)

\* fault variant of suggestion_message: the message without the adjustment
suggestion_message_blank(adjustment) == Msg(SuggestionMsg)

\* f"Suggestion for next print: {adjustment}"
suggestion_message(adjustment) ==
    [Msg(SuggestionMsg) EXCEPT !.adj = Some(adjustment)]

\* fault variant of phase1_patch_missing: the message is returned but the
\* controller is left as it was
phase1_patch_missing_unrecorded(c) == Returned(c, Msg(PatchNotFoundMsg))

\* the branch of _process_phase1 taken when the anchor patch is not in the
\* batch
phase1_patch_missing(c) ==
    Returned([c EXCEPT !.last_error_message = PatchNotFoundMsg,
                       !.phase = ERROR],
             Msg(PatchNotFoundMsg))

\* fault variant of phase1_converged_outside: the guided flow goes on to the
\* colour analysis
phase1_converged_outside_to_analysis(c) ==
    Returned([c EXCEPT !.phase = PHASE_4_COLOR_ANALYSIS], Msg(ConvergedOutsideMsg))

\* the branch of _process_phase1 taken when the readings converged outside
\* the target
phase1_converged_outside(c) ==
    Returned([c EXCEPT !.phase = PHASE_3_DRIVER_LOCK], Msg(ConvergedOutsideMsg))

_process_phase1(c, df) ==
    LET patch_name == Phase1Targets.patch_name
        patch_lab == get_patch_lab(df, patch_name)
    IN  IF patch_lab = None
        THEN phase1_patch_missing(c)
        ELSE
          LET lab == Val(patch_lab)
              has_history == c.history # <<>>
              prev_df == c.history[Len(c.history)].df
              prev_lab == get_patch_lab(prev_df, patch_name)
              \* _get_phase1_error(prev_lab) subscripts prev_lab
              subscript_of_none == has_history /\ prev_lab = None
              is_converged ==
                  /\ has_history
                  /\ prev_lab # None
                  /\ phase1_is_converged(lab, Val(prev_lab))
              is_within_target == is_patch_within_target(lab, Phase1Targets)
              adjustment == suggest_adjustment(lab, Phase1Targets, InkSteps)
              appended == history_append(c, df, adjustment)
          IN  IF subscript_of_none THEN Raised(c, "TypeError")
              ELSE IF is_converged
              THEN IF is_within_target
                   THEN _process_phase2(
                            [history_append(c, df, EmptyDict) EXCEPT
                                !.phase = PHASE_2_NEUTRAL_SLOPE],
                            df)
                   ELSE phase1_converged_outside(c)
              ELSE IF phase1_zero_adjustment(adjustment)
              THEN IF is_within_target
                   THEN _process_phase2([appended EXCEPT !.phase = PHASE_2_NEUTRAL_SLOPE], df)
                   ELSE Returned([appended EXCEPT
                                      !.last_error_message = NoEffectiveAdjustmentMsg,
                                      !.phase = ERROR],
                                 Msg(NoEffectiveAdjustmentMsg))
              ELSE Returned(appended, suggestion_message(adjustment))

\* fault variant of phase4_failed: a failed analysis leaves the phase alone
phase4_failed_keeps_phase(c) ==
    [c EXCEPT !.last_error_message = AnalysisFailedMsg]

\* the else branch of _process_phase4
phase4_failed(c) ==
    [c EXCEPT !.phase = ERROR, !.last_error_message = AnalysisFailedMsg]

\* fault variant of phase4_passed: the batch is retained but the phase
\* stays PHASE_4_COLOR_ANALYSIS
phase4_passed_stays(c, df) ==
    [c EXCEPT !.last_measurements_df = Some(df)]

\* the branch of _process_phase4 taken when the analysis passed
phase4_passed(c, df) ==
    [c EXCEPT !.phase = PHASE_5_ICC_CONSTRUCTION,
              !.last_measurements_df = Some(df)]

\* fault variant of _process_phase4: a passing analysis ends the calibration
_process_phase4_completes(c, df) ==
    LET result == analyze_color_patches(df, Phase4Targets)
        report == [Msg(result.report.text) EXCEPT !.report = Some(result.report)]
    IN  IF result.passed
        THEN Returned([c EXCEPT !.phase = COMPLETE,
                                !.last_measurements_df = Some(df)],
                      report)
        ELSE Returned(phase4_failed(c), report)

_process_phase4(c, df) ==
    LET result == analyze_color_patches(df, Phase4Targets)
        report == [Msg(result.report.text) EXCEPT !.report = Some(result.report)]
    IN  IF result.passed
        THEN Returned(phase4_passed(c, df), report)
        ELSE Returned(phase4_failed(c), report)

\* fault variant of process_locked: a locked submission treated as an error
process_locked_to_error(c) ==
    Returned([c EXCEPT !.last_error_message = LockedMsg, !.phase = ERROR],
             Msg(LockedMsg))

\* the branch for PHASE_3_DRIVER_LOCK, COMPLETE and PHASE_5_ICC_CONSTRUCTION
process_locked(c) ==
    Returned([c EXCEPT !.last_error_message = LockedMsg], Msg(LockedMsg))

\* fault variant of precondition_advance: the first batch is not processed
\* in Phase 1
precondition_stays(c) == c

\* process_measurements in PRECONDITION moves to Phase 1 before dispatching
precondition_advance(c) ==
    IF c.phase = PRECONDITION
    THEN [c EXCEPT !.phase = PHASE_1_NEUTRAL_GREY]
    ELSE c

\* fault variant of process_unhandled: the call clears the stored error
process_unhandled_clears_error(c) ==
    Returned([c EXCEPT !.last_error_message = ""], Msg(NoActionMsg))

\* the final else branch of process_measurements: a phase without a handler
process_unhandled(c) == Returned(c, Msg(NoActionMsg))

\* fault variant of process_measurements: the final else branch is missing,
\* so a phase without a handler returns nothing
process_measurements_no_else(c, df) ==
    LET c1 == precondition_advance(c)
    IN  IF c1.phase = PHASE_1_NEUTRAL_GREY THEN _process_phase1(c1, df)
        ELSE IF c1.phase = PHASE_2_NEUTRAL_SLOPE THEN _process_phase2(c1, df)
        ELSE IF c1.phase = PHASE_4_COLOR_ANALYSIS THEN _process_phase4(c1, df)
        ELSE IF c1.phase \in {PHASE_3_DRIVER_LOCK, COMPLETE, PHASE_5_ICC_CONSTRUCTION}
        THEN process_locked(c1)
        ELSE Returned(c1, Msg(""))

process_measurements(c, df) ==
    LET c1 == precondition_advance(c)
    IN  IF c1.phase = PHASE_1_NEUTRAL_GREY THEN _process_phase1(c1, df)
        ELSE IF c1.phase = PHASE_2_NEUTRAL_SLOPE THEN _process_phase2(c1, df)
        ELSE IF c1.phase = PHASE_4_COLOR_ANALYSIS THEN _process_phase4(c1, df)
        ELSE IF c1.phase \in {PHASE_3_DRIVER_LOCK, COMPLETE, PHASE_5_ICC_CONSTRUCTION}
        THEN process_locked(c1)
        ELSE process_unhandled(c1)

\* export_icc outside PHASE_5_ICC_CONSTRUCTION
\* fault variant of export_wrong_phase: the rejected export empties the
\* history
export_wrong_phase_clears(c) ==
    Returned([c EXCEPT !.history = <<>>], Msg(WrongPhaseMsg))

\* export_icc called outside PHASE_5_ICC_CONSTRUCTION
export_wrong_phase(c) == Returned(c, Msg(WrongPhaseMsg))

\* fault variant of export_no_data: the message is returned but the phase
\* is left alone
export_no_data_keeps_phase(c) ==
    Returned([c EXCEPT !.last_error_message = NoDataMsg], Msg(NoDataMsg))

\* export_icc with no retained measurements
export_no_data(c) ==
    Returned([c EXCEPT !.phase = ERROR, !.last_error_message = NoDataMsg],
             Msg(NoDataMsg))

\* fault variant of export_succeeded: the phase stays
\* PHASE_5_ICC_CONSTRUCTION after a successful export
export_succeeded_stays(c) == c

\* export_icc after icc.build_and_export_icc reported success
export_succeeded(c) == [c EXCEPT !.phase = COMPLETE]

\* fault variant of export_build: the phase advances whatever the exporter
\* reports
export_build_unchecked(c, filename, io_ok) ==
    LET result == build_and_export_icc(Val(c.last_measurements_df),
                                       get_reference_lab_values, filename, io_ok)
    IN  [c |-> [c EXCEPT !.phase = COMPLETE],
         ret |-> result.message,
         raised |-> "",
         icc_invoked |-> TRUE]

\* export_icc handing the retained measurements to icc.build_and_export_icc
export_build(c, filename, io_ok) ==
    LET ref_labs == get_reference_lab_values
        result == build_and_export_icc(Val(c.last_measurements_df),
                                       ref_labs, filename, io_ok)
    IN  [c |-> IF result.success THEN export_succeeded(c) ELSE c,
         ret |-> result.message,
         raised |-> "",
         icc_invoked |-> TRUE]

\* fault variant of export_icc: the phase test the export tab of the GUI
\* uses (is_ready), which also admits COMPLETE
export_icc_ready_phases(c, filename, io_ok) ==
    IF c.phase \notin {PHASE_5_ICC_CONSTRUCTION, COMPLETE} THEN export_wrong_phase(c)
    ELSE IF c.last_measurements_df = None THEN export_no_data(c)
    ELSE export_build(c, filename, io_ok)

export_icc(c, filename, io_ok) ==
    IF c.phase # PHASE_5_ICC_CONSTRUCTION THEN export_wrong_phase(c)
    ELSE IF c.last_measurements_df = None THEN export_no_data(c)
    ELSE export_build(c, filename, io_ok)

\* the instruction strings of get_next_action, one per phase
NextActionText ==
    [ph \in CalibrationPhase |->
        CASE ph = PRECONDITION ->
               "Verify preconditions (paper, ink, settings) and measure the neutral patches chart."
          [] ph = PHASE_1_NEUTRAL_GREY ->
               "Calibrating mid-grey anchor (RGB100). Apply the suggested adjustments and re-measure the neutral patches chart."
          [] ph = PHASE_2_NEUTRAL_SLOPE ->
               "Mid-grey anchor is calibrated. Now validating neutral slope with the same measurement data. No adjustments needed."
          [] ph = PHASE_3_DRIVER_LOCK ->
               "Driver adjustments are now locked. Do not change any driver color settings. Next, print and measure the full colour chart for analysis."
          [] ph = PHASE_4_COLOR_ANALYSIS ->
               "Analyzing full colour chart. This checks if the printer is within tolerance for ICC profiling."
          [] ph = PHASE_5_ICC_CONSTRUCTION ->
               "Printer is within tolerance. Go to the 'Export Profile' tab to save the ICC profile."
          [] ph = COMPLETE ->
               "Calibration is complete! ICC Profile has been generated."
          [] ph = ERROR -> "An error occurred:"]

\* fault variant of get_next_action: the ERROR instruction without the
\* stored message
get_next_action_generic(c) == Returned(c, Msg(NextActionText[c.phase]))

\* get_next_action: the string of the phase; detail is the text the ERROR
\* entry interpolates
get_next_action(c) ==
    Returned(c, [Msg(NextActionText[c.phase]) EXCEPT
                    !.detail = IF c.phase = ERROR THEN c.last_error_message
                               ELSE ""])

\* self.controller.save_state(filepath): CalibrationController defines no
\* attribute of that name, so the lookup raises
save_state(c, filepath) == Raised(c, "AttributeError")

\* CalibrationController.load_state(filepath): likewise
load_state(c, filepath) == Raised(c, "AttributeError")

\* fault variant of set_phase: the retained measurements survive the override
set_phase_keeps_measurements(c, ph) ==
    [c EXCEPT !.phase = ph,
              !.history = <<>>,
              !.last_error_message = ""]

set_phase(c, ph) ==
    [c EXCEPT !.phase = ph,
              !.history = <<>>,
              !.last_error_message = "",
              !.last_measurements_df = None]

\* fault variant of reset: only the phase is put back
reset_phase_only(c) == [c EXCEPT !.phase = PRECONDITION]

reset(c) == set_phase(c, PRECONDITION)

(***************************************************************************)
(* Inputs: the measurement batches and file names submitted by the caller. *)
(***************************************************************************)
Row(patch, L, a, b) == [patch |-> patch, L |-> L, a |-> a, b |-> b]

\* readings of the anchor patch RGB100 (quarter units; the target is
\* L in [146, 158], a in [-8, 8], b in [-16, 16]):
\* on the target centre; within the minimal change of it; exactly the
\* minimal change away; on the edge of the a range; just outside it; at
\* exactly twice the a tolerance; beyond it; the reading (50, -3, -9) of
\* test_analysis.py; only L out of range; a and b both above tolerance.
AnchorReadings ==
    {<<150, 0, 0>>, <<150, 1, 1>>, <<150, 2, 0>>, <<150, 8, 0>>, <<150, 9, 0>>,
     <<150, 16, 0>>, <<150, 17, 0>>, <<200, -12, -36>>, <<160, 0, 0>>,
     <<150, 9, 17>>}

\* readings of RGB150 (tolerances |a| <= 8, |b| <= 16): inside; exactly at
\* both tolerances; a outside; a of negative sign
Rgb150Readings == {<<248, 1, 1>>, <<248, 8, 16>>, <<248, 9, 0>>, <<248, -1, 1>>}

\* readings of RGB200 (tolerances |a| <= 8, |b| <= 14): inside; exactly at
\* both tolerances; b outside; a of negative sign
Rgb200Readings == {<<322, 1, 1>>, <<322, 8, 14>>, <<322, 1, 15>>, <<322, -1, 1>>}

NeutralChart(g100, g150, g200) ==
    <<Row("RGB100", g100[1], g100[2], g100[3]),
      Row("RGB150", g150[1], g150[2], g150[3]),
      Row("RGB200", g200[1], g200[2], g200[3])>>

\* neutral charts: every anchor reading with good RGB150/RGB200 rows, and
\* every RGB150/RGB200 combination with an in-target anchor
NeutralBatches ==
    {NeutralChart(g, <<248, 1, 1>>, <<322, 1, 1>>) : g \in AnchorReadings}
    \cup {NeutralChart(<<150, 1, 1>>, g150, g200) :
             g150 \in Rgb150Readings, g200 \in Rgb200Readings}

\* charts with rows missing or repeated: no row at all; the anchor alone;
\* one of RGB150/RGB200 missing; the anchor missing; the anchor measured
\* twice (the first row is the one read)
PartialBatches ==
    {<<>>,
     <<Row("RGB100", 150, 1, 1)>>,
     <<Row("RGB100", 150, 1, 1), Row("RGB150", 248, 1, 1)>>,
     <<Row("RGB100", 150, 1, 1), Row("RGB200", 322, 1, 1)>>,
     <<Row("RGB150", 248, 1, 1), Row("RGB200", 322, 1, 1)>>,
     <<Row("RGB100", 150, 9, 0), Row("RGB100", 150, 0, 0),
       Row("RGB150", 248, 1, 1), Row("RGB200", 322, 1, 1)>>}

\* a row of the colour chart measured d quarter units lighter than its
\* reference value
ColourRow(name, d) ==
    LET ref == get_reference_lab_values[name]
    IN  Row(name, ref[1] + d, ref[2], ref[3])

\* the 24 patches of the colour chart in the order of config.COLOUR_PATCHES
ColourPatchOrder ==
    <<"N0", "N64", "N128", "N192", "N224", "N240", "N248", "N255",
      "R", "G", "B", "C", "M", "Y", "R+64", "G+64", "B+64",
      "R-64", "G-64", "B-64", "Skin1", "Skin2", "Sky", "Leaf">>

\* the full colour chart, every patch on its reference except patch `name`,
\* which is off by d
FullChart(name, d) ==
    [i \in 1..Len(ColourPatchOrder) |->
        ColourRow(ColourPatchOrder[i], IF ColourPatchOrder[i] = name THEN d ELSE 0)]

\* colour charts: all 24 patches on their reference; one patch off by more
\* than the maximum ceiling; a single matching patch; only an unknown
\* patch; a matching and an unknown patch; a skin tone at and above its
\* ceiling; a mean above its ceiling; a 95th percentile above its ceiling;
\* a patch measured twice (the last row is the one analysed)
ColourBatches ==
    {FullChart("N0", 0),
     FullChart("R", 109),
     <<ColourRow("N0", 0)>>,
     <<Row("Unknown1", 200, 0, 0)>>,
     <<ColourRow("N0", 0), Row("Unknown1", 200, 0, 0)>>,
     <<ColourRow("Skin1", 48)>>,
     <<ColourRow("Skin1", 49)>>,
     <<ColourRow("N128", 53)>>,
     <<ColourRow("N0", 0), ColourRow("N64", 0), ColourRow("N128", 100), ColourRow("N192", 100)>>,
     <<ColourRow("N128", 109), ColourRow("N128", 0)>>}

Batches == NeutralBatches \cup PartialBatches \cup ColourBatches

\* file names: without extension, with ".icc", with ".ICC", with another
\* extension, and the empty name
Filenames ==
    {<<"profile">>, <<"profile", ".icc">>, <<"profile", ".ICC">>,
     <<"profile", ".txt">>, <<>>}

(***************************************************************************)
(* The state machine: one controller and its caller.                       *)
(***************************************************************************)
VARIABLES
    phase,                 \* self.phase
    history,               \* self.history: sequence of [df, adj]
    last_error_message,    \* self.last_error_message
    last_measurements_df,  \* self.last_measurements_df: None or Some(df)
    op,                    \* the last call: its name and, for set_phase, its argument
    ret,                   \* what the last call returned (Msg("") for nothing)
    raised,                \* the exception that escaped the last call, "" for none
    icc_invoked,           \* whether the last call ran icc.build_and_export_icc
    called_in,             \* the phase the controller was in when the last call was made
    patch_lab,             \* the reading given to the last direct call of the advisor
    csv_columns,           \* the header of the file given to load_csv
    loaded_columns,        \* the columns of the frame load_csv returned
    refresh_observed,      \* the phase the last status refresh of the GUI read
    pending_refreshes      \* status refreshes queued with QTimer.singleShot

vars == <<phase, history, last_error_message, last_measurements_df,
          op, ret, raised, icc_invoked, called_in, patch_lab,
          csv_columns, loaded_columns, refresh_observed, pending_refreshes>>

\* the controller object held in the variables
self == Controller(phase, history, last_error_message, last_measurements_df)

Call(name, ph) == [name |-> name, ph |-> ph]

\* the variables take the outcome of a call
Becomes(result, call) ==
    /\ phase' = result.c.phase
    /\ history' = result.c.history
    /\ last_error_message' = result.c.last_error_message
    /\ last_measurements_df' = result.c.last_measurements_df
    /\ op' = call
    /\ ret' = result.ret
    /\ raised' = result.raised
    /\ icc_invoked' = result.icc_invoked
    /\ called_in' = phase
    /\ UNCHANGED <<patch_lab, csv_columns, loaded_columns,
                   refresh_observed, pending_refreshes>>

Init ==
    /\ phase = NewController.phase
    /\ history = NewController.history
    /\ last_error_message = NewController.last_error_message
    /\ last_measurements_df = NewController.last_measurements_df
    /\ op = Call("__init__", "")
    /\ ret = Msg("")
    /\ raised = ""
    /\ icc_invoked = FALSE
    /\ called_in = NewController.phase
    /\ patch_lab = None
    /\ csv_columns = {}
    /\ loaded_columns = None
    /\ refresh_observed = None
    /\ pending_refreshes = 0

\* controller.process_measurements(df)
Process(df) ==
    LET result == process_measurements(self, df)
    IN  /\ Len(result.c.history) <= MaxHistory
        /\ Becomes(result, Call("process_measurements", ""))

\* controller.export_icc(filename); io_ok is whether the file could be written
Export(filename, io_ok) ==
    Becomes(export_icc(self, filename, io_ok), Call("export_icc", ""))

\* controller.set_phase(ph)
SetPhase(ph) ==
    Becomes(Returned(set_phase(self, ph), Msg("")), Call("set_phase", ph))

\* controller.reset()
Reset ==
    Becomes(Returned(reset(self), Msg("")), Call("reset", ""))

\* controller.get_next_action()
NextAction ==
    Becomes(get_next_action(self), Call("get_next_action", ""))

\* MainWindow.save_profile with a chosen file
SaveState(filepath) ==
    Becomes(save_state(self, filepath), Call("save_state", ""))

\* MainWindow.load_profile with a chosen file
LoadState(filepath) ==
    Becomes(load_state(self, filepath), Call("load_state", ""))

Next ==
    \/ \E df \in Batches : Process(df)
    \/ \E filename \in Filenames, io_ok \in BOOLEAN : Export(filename, io_ok)
    \/ \E ph \in CalibrationPhase : SetPhase(ph)
    \/ Reset
    \/ NextAction
    \/ \E filepath \in Filenames : SaveState(filepath)
    \/ \E filepath \in Filenames : LoadState(filepath)

Spec == Init /\ [][Next]_vars

(***************************************************************************)
(* The guided flow: a fresh controller driven by process_measurements,     *)
(* export_icc and reset alone, never by set_phase.                         *)
(***************************************************************************)
GuidedNext ==
    \/ \E df \in Batches : Process(df)
    \/ \E filename \in Filenames, io_ok \in BOOLEAN : Export(filename, io_ok)
    \/ Reset

GuidedSpec == Init /\ [][GuidedNext]_vars

(***************************************************************************)
(* The controller without set_phase(ERROR): every other call is allowed.   *)
(***************************************************************************)
SetPhaseNotError ==
    \E ph \in CalibrationPhase \ {ERROR} : SetPhase(ph)

UnforcedNext ==
    \/ \E df \in Batches : Process(df)
    \/ \E filename \in Filenames, io_ok \in BOOLEAN : Export(filename, io_ok)
    \/ SetPhaseNotError
    \/ Reset
    \/ NextAction
    \/ \E filepath \in Filenames : SaveState(filepath)
    \/ \E filepath \in Filenames : LoadState(filepath)

UnforcedSpec == Init /\ [][UnforcedNext]_vars

(***************************************************************************)
(* The main window of the GUI driving one controller: every handler ends   *)
(* with a status refresh, and a refresh may queue another one.             *)
(***************************************************************************)
\* ExportTab.update_ui_state: the phases in which the export controls are
\* enabled
is_ready(ph) == ph \in {PHASE_5_ICC_CONSTRUCTION, COMPLETE}

\* fault variant of update_status_display: the refresh only reads
update_status_display_passive(c) ==
    [c |-> c, observed |-> c.phase, scheduled |-> FALSE]

\* MainWindow.update_status_display on controller c: the controller it
\* leaves, the phase it read and whether it queued another refresh
update_status_display(c) ==
    IF c.phase = PHASE_3_DRIVER_LOCK
    THEN [c |-> set_phase(c, PHASE_4_COLOR_ANALYSIS),
          observed |-> c.phase,
          scheduled |-> TRUE]
    ELSE [c |-> c, observed |-> c.phase, scheduled |-> FALSE]

\* the phases of the "Skip to Phase..." menu
SkipMenuPhases == CalibrationPhase \ {COMPLETE, ERROR}

\* the variables take the outcome of a handler of the GUI: the call on the
\* controller followed, unless the call raised, by update_status_display;
\* `fired` is the number of queued refreshes the step consumed
Refreshed(result, call, fired) ==
    LET shown == update_status_display(result.c)
        refreshes == result.raised = ""
        c == IF refreshes THEN shown.c ELSE result.c
    IN  /\ phase' = c.phase
        /\ history' = c.history
        /\ last_error_message' = c.last_error_message
        /\ last_measurements_df' = c.last_measurements_df
        /\ op' = call
        /\ ret' = result.ret
        /\ raised' = result.raised
        /\ icc_invoked' = result.icc_invoked
        /\ called_in' = phase
        /\ refresh_observed' =
              IF refreshes THEN Some(shown.observed) ELSE refresh_observed
        /\ pending_refreshes' =
              pending_refreshes - fired
                  + (IF refreshes /\ shown.scheduled THEN 1 ELSE 0)
        /\ pending_refreshes' <= MaxPending
        /\ UNCHANGED <<patch_lab, csv_columns, loaded_columns>>

\* MainWindow.__init__: a new controller and the first status refresh
GuiInit ==
    /\ phase = NewController.phase
    /\ history = NewController.history
    /\ last_error_message = NewController.last_error_message
    /\ last_measurements_df = NewController.last_measurements_df
    /\ op = Call("__init__", "")
    /\ ret = Msg("")
    /\ raised = ""
    /\ icc_invoked = FALSE
    /\ called_in = NewController.phase
    /\ patch_lab = None
    /\ csv_columns = {}
    /\ loaded_columns = None
    /\ refresh_observed = Some(NewController.phase)
    /\ pending_refreshes = 0

\* MainWindow.process_dataframe(df) with a batch that is not empty
ProcessDataframe(df) ==
    LET result == process_measurements(self, df)
    IN  /\ df # <<>>
        /\ Len(result.c.history) <= MaxHistory
        /\ Refreshed(result, Call("process_dataframe", ""), 0)

\* MainWindow.skip_to_phase(ph), from the menu
SkipToPhase(ph) ==
    Refreshed(Returned(set_phase(self, ph), Msg("")), Call("skip_to_phase", ph), 0)

\* MainWindow.reset_calibration
ResetCalibration ==
    Refreshed(Returned(reset(self), Msg("")), Call("reset_calibration", ""), 0)

\* ExportTab.export_icc with a file name, while the export controls are
\* enabled
ExportClicked(filename, io_ok) ==
    /\ refresh_observed # None
    /\ is_ready(Val(refresh_observed))
    /\ filename # <<>>
    /\ Refreshed(export_icc(self, filename, io_ok), Call("export_icc", ""), 0)

\* a refresh queued with QTimer.singleShot(0, self.update_status_display)
\* runs
QueuedRefresh ==
    /\ pending_refreshes > 0
    /\ Refreshed(Returned(self, Msg("")), Call("update_status_display", ""), 1)

GuiNext ==
    \/ \E df \in Batches : ProcessDataframe(df)
    \/ \E ph \in SkipMenuPhases : SkipToPhase(ph)
    \/ ResetCalibration
    \/ \E filename \in Filenames, io_ok \in BOOLEAN : ExportClicked(filename, io_ok)
    \/ QueuedRefresh

GuiSpec == GuiInit /\ [][GuiNext]_vars

(***************************************************************************)
(* The advisor on its own: analysis.suggest_adjustment applied to a        *)
(* reading, as the unit tests call it, with the default targets and steps. *)
(***************************************************************************)
\* the readings the advisor is applied to
PatchLabs == {<<L, a, b>> : L \in {150, 200}, a \in -MaxA..MaxA, b \in -MaxB..MaxB}

AdvisorInit ==
    /\ phase = NewController.phase
    /\ history = NewController.history
    /\ last_error_message = NewController.last_error_message
    /\ last_measurements_df = NewController.last_measurements_df
    /\ op = Call("__init__", "")
    /\ ret = Msg("")
    /\ raised = ""
    /\ icc_invoked = FALSE
    /\ called_in = NewController.phase
    /\ patch_lab \in {Some(lab) : lab \in PatchLabs}
    /\ csv_columns = {}
    /\ loaded_columns = None
    /\ refresh_observed = None
    /\ pending_refreshes = 0

\* analysis.suggest_adjustment(patch_lab, Phase1Targets(), InkSteps())
Suggest ==
    /\ op.name = "__init__"
    /\ op' = Call("suggest_adjustment", "")
    /\ ret' = [Msg("") EXCEPT
                  !.adj = Some(suggest_adjustment(Val(patch_lab), Phase1Targets,
                                                  InkSteps))]
    /\ UNCHANGED <<phase, history, last_error_message, last_measurements_df,
                   raised, icc_invoked, called_in, patch_lab,
                   csv_columns, loaded_columns,
                   refresh_observed, pending_refreshes>>

AdvisorNext == Suggest

AdvisorSpec == AdvisorInit /\ [][AdvisorNext]_vars

(***************************************************************************)
(* The loader on its own: io.load_csv applied to the header of a file.     *)
(***************************************************************************)
\* column names a measurement file may carry
ColumnNames ==
    {<<"patch">>, <<" ", "Patch", " ">>, <<"label">>,
     <<"L">>, <<" ", "l">>,
     <<"a">>, <<"A">>, <<"a_lab">>,
     <<"b">>, <<"b_lab">>, <<"B_LAB">>,
     <<"rgb">>, <<"Unnamed: 0">>}

\* the headers: sets of at most MaxColumns column names
Headers == {h \in SUBSET ColumnNames : Cardinality(h) <= MaxColumns}

LoaderInit ==
    /\ phase = NewController.phase
    /\ history = NewController.history
    /\ last_error_message = NewController.last_error_message
    /\ last_measurements_df = NewController.last_measurements_df
    /\ op = Call("__init__", "")
    /\ ret = Msg("")
    /\ raised = ""
    /\ icc_invoked = FALSE
    /\ called_in = NewController.phase
    /\ patch_lab = None
    /\ csv_columns \in Headers
    /\ loaded_columns = None
    /\ refresh_observed = None
    /\ pending_refreshes = 0

\* io.load_csv(path) on a file with the header csv_columns
LoadCsv ==
    /\ op.name = "__init__"
    /\ op' = Call("load_csv", "")
    /\ raised' = load_csv(csv_columns).raised
    /\ loaded_columns' = load_csv(csv_columns).columns
    /\ UNCHANGED <<phase, history, last_error_message, last_measurements_df,
                   ret, icc_invoked, called_in, patch_lab, csv_columns,
                   refresh_observed, pending_refreshes>>

LoaderNext == LoadCsv

LoaderSpec == LoaderInit /\ [][LoaderNext]_vars

TypeOK ==
    /\ phase \in CalibrationPhase
    /\ Len(history) <= MaxHistory
    /\ raised \in {"", "TypeError", "AttributeError", "ValueError"}
    /\ icc_invoked \in BOOLEAN

(***************************************************************************)
(* Properties.                                                             *)
(***************************************************************************)
\* the phases in which measurement processing is locked
LockedPhases == {PHASE_3_DRIVER_LOCK, PHASE_5_ICC_CONSTRUCTION, COMPLETE}

\* the four mutable fields of the controller
fields == <<phase, history, last_error_message, last_measurements_df>>

IsPrefix(s, t) == Len(s) <= Len(t) /\ SubSeq(t, 1, Len(s)) = s

\* C1: process_measurements never raises: after every call, and for every
\* batch that could be submitted in any reachable state, no exception
\* escapes, a message with a text is returned and the phase is one of the
\* eight CalibrationPhase members.
C1_ProcessNeverRaises ==
    /\ op.name = "process_measurements" =>
          raised = "" /\ ret.text # "" /\ phase \in CalibrationPhase
    /\ \A df \in Batches :
          LET result == process_measurements(self, df)
          IN  /\ result.raised = ""
              /\ result.ret.text # ""
              /\ result.c.phase \in CalibrationPhase

\* a call that read the previous reading out of a history of two entries
W_C1 ==
    /\ op.name = "process_measurements"
    /\ phase = PHASE_1_NEUTRAL_GREY
    /\ Len(history) >= 2

\* C2: a process_measurements call made in PHASE_3_DRIVER_LOCK,
\* PHASE_5_ICC_CONSTRUCTION or COMPLETE leaves the phase as it was and
\* returns the locked message.
C2_LockedKeepsPhase ==
    [][(op'.name = "process_measurements" /\ phase \in LockedPhases)
          => (phase' = phase /\ ret' = Msg(LockedMsg) /\ raised' = "")]_vars

W_C2 ==
    /\ op.name = "process_measurements"
    /\ phase = PHASE_3_DRIVER_LOCK
    /\ ret = Msg(LockedMsg)

\* C3: a process_measurements call made in a locked phase changes none of
\* phase, history, last error message and retained measurements.
C3_LockedChangesNothing ==
    [][(op'.name = "process_measurements" /\ phase \in LockedPhases)
          => UNCHANGED fields]_vars

\* C4: export_icc outside PHASE_5_ICC_CONSTRUCTION returns the wrong-phase
\* message, changes none of the four fields and does not call the exporter.
C4_ExportWrongPhase ==
    [][(op'.name = "export_icc" /\ phase # PHASE_5_ICC_CONSTRUCTION)
          => (ret' = Msg(WrongPhaseMsg) /\ UNCHANGED fields /\ ~icc_invoked')]_vars

\* an export refused in COMPLETE although measurements are retained
W_C4 ==
    /\ op.name = "export_icc"
    /\ ret = Msg(WrongPhaseMsg)
    /\ phase = COMPLETE
    /\ last_measurements_df # None

\* C5: export_icc in PHASE_5_ICC_CONSTRUCTION with retained measurements
\* calls the exporter and returns its message; the phase becomes COMPLETE
\* exactly when the exporter reports success, and on failure the four
\* fields are unchanged.
C5_ExportOutcome ==
    [][\A filename \in Filenames, io_ok \in BOOLEAN :
          (/\ Export(filename, io_ok)
           /\ phase = PHASE_5_ICC_CONSTRUCTION
           /\ last_measurements_df # None)
          => LET result == build_and_export_icc(Val(last_measurements_df),
                               get_reference_lab_values, filename, io_ok)
             IN  /\ icc_invoked'
                 /\ ret' = result.message
                 /\ (phase' = COMPLETE) <=> result.success
                 /\ ~result.success => UNCHANGED fields]_vars

\* a failed export that left the controller ready for another attempt
W_C5 ==
    /\ op.name = "export_icc"
    /\ icc_invoked
    /\ ret.text = ExportFailedMsg
    /\ phase = PHASE_5_ICC_CONSTRUCTION
    /\ last_measurements_df # None

\* C6: export_icc in PHASE_5_ICC_CONSTRUCTION without retained measurements
\* moves to ERROR, stores and returns the no-data message and does not call
\* the exporter.
C6_ExportNoData ==
    [][(/\ op'.name = "export_icc"
        /\ phase = PHASE_5_ICC_CONSTRUCTION
        /\ last_measurements_df = None)
          => (/\ phase' = ERROR
              /\ last_error_message' = NoDataMsg
              /\ ret' = Msg(NoDataMsg)
              /\ ~icc_invoked')]_vars

W_C6 ==
    /\ op.name = "export_icc"
    /\ phase = ERROR
    /\ last_error_message = NoDataMsg
    /\ ret = Msg(NoDataMsg)

\* a step that makes the phase COMPLETE by a successful export
CompletedByExport ==
    /\ op'.name = "export_icc"
    /\ phase = PHASE_5_ICC_CONSTRUCTION
    /\ icc_invoked'
    /\ ret'.text = ExportedMsg

\* C7 (as stated): every step that makes the phase COMPLETE is an export_icc
\* call in PHASE_5_ICC_CONSTRUCTION whose exporter reported success.
C7_CompleteOnlyByExport ==
    [][(phase' = COMPLETE /\ phase # COMPLETE) => CompletedByExport]_vars

\* C7 (amended): every step that makes the phase COMPLETE is a successful
\* export_icc call in PHASE_5_ICC_CONSTRUCTION or the call
\* set_phase(COMPLETE); no process_measurements or reset call does.
C7_CompleteByExportOrOverride ==
    [][(phase' = COMPLETE /\ phase # COMPLETE)
          => (CompletedByExport \/ op' = Call("set_phase", COMPLETE))]_vars

W_C7 ==
    /\ op.name = "export_icc"
    /\ icc_invoked
    /\ phase = COMPLETE
    /\ ret.text = ExportedMsg

\* C8: after set_phase(X) the current phase is X, the history and the last
\* error message are empty and no measurements are retained, whatever the
\* state before and whatever X.
C8_SetPhaseOverrides ==
    /\ op.name = "set_phase" =>
          /\ get_current_phase(self) = op.ph
          /\ history = <<>>
          /\ last_error_message = ""
          /\ last_measurements_df = None
    /\ \A ph \in CalibrationPhase :
          set_phase(self, ph) = Controller(ph, <<>>, "", None)

W_C8 ==
    /\ op = Call("set_phase", PHASE_2_NEUTRAL_SLOPE)
    /\ phase = PHASE_2_NEUTRAL_SLOPE

\* C9: reset gives the state of a newly constructed controller from every
\* reachable state, equals set_phase(PRECONDITION) and is idempotent.
C9_ResetIsFresh ==
    /\ op.name = "reset" => self = NewController
    /\ reset(self) = NewController
    /\ reset(self) = set_phase(self, PRECONDITION)
    /\ reset(reset(self)) = reset(self)

W_C9 ==
    /\ op.name = "reset"
    /\ self = NewController

\* C10: process_measurements and export_icc leave the history unchanged or
\* extend it at the end, and a non-empty history becomes empty only by
\* set_phase or reset.
C10_HistoryAppendOnly ==
    [][/\ op'.name \in {"process_measurements", "export_icc"}
          => IsPrefix(history, history')
       /\ (history # <<>> /\ history' = <<>>)
          => op'.name \in {"set_phase", "reset"}]_vars

\* a second entry appended behind the first
W_C10 ==
    /\ op.name = "process_measurements"
    /\ Len(history) >= 2
    /\ history[1] # history[2]

(***************************************************************************)
(* Phase 1 and Phase 2.                                                    *)
(***************************************************************************)
\* C11: a batch processed in PRECONDITION is handled as in Phase 1: from
\* every reachable state and for every batch, reset followed by
\* process_measurements gives the same message, the same exception status
\* and the same controller state as set_phase(PHASE_1_NEUTRAL_GREY) followed
\* by process_measurements, and the phase after process_measurements is
\* never PRECONDITION.
C11_PreconditionRunsPhase1 ==
    /\ \A df \in Batches :
          LET via_reset == process_measurements(reset(self), df)
              via_set_phase ==
                  process_measurements(set_phase(self, PHASE_1_NEUTRAL_GREY), df)
          IN  /\ via_reset.ret = via_set_phase.ret
              /\ via_reset.raised = via_set_phase.raised
              /\ via_reset.c = via_set_phase.c
              /\ via_reset.c.phase # PRECONDITION
              /\ process_measurements(self, df).c.phase # PRECONDITION
    /\ op.name = "process_measurements" => phase # PRECONDITION

\* the first batch, submitted in PRECONDITION, got a Phase 1 suggestion
W_C11 ==
    /\ op.name = "process_measurements"
    /\ called_in = PRECONDITION
    /\ phase = PHASE_1_NEUTRAL_GREY
    /\ ret.text = SuggestionMsg
    /\ Len(history) = 1

\* the anchor reading of a batch that has one
anchor_of(df) == Val(get_patch_lab(df, Phase1Targets.patch_name))

\* the batch has an anchor reading whose error is strictly greater than the
\* error of the last reading of the history
regressed(hist, df) ==
    /\ hist # <<>>
    /\ get_patch_lab(df, Phase1Targets.patch_name) # None
    /\ _get_phase1_error(anchor_of(df))
          > _get_phase1_error(anchor_of(hist[Len(hist)].df))

\* C12: in Phase 1 with a previous reading in the history, a batch whose
\* anchor error is strictly greater than the previous reading's error
\* converges however far the reading moved: no suggestion is returned and
\* the phase after the call is not PHASE_1_NEUTRAL_GREY.
C12_RegressionConverges ==
    \A df \in Batches :
        (phase = PHASE_1_NEUTRAL_GREY /\ regressed(history, df)) =>
            LET result == process_measurements(self, df)
            IN  /\ result.raised = ""
                /\ result.ret.adj = None
                /\ result.ret.text # SuggestionMsg
                /\ result.c.phase # PHASE_1_NEUTRAL_GREY

\* a Phase 1 call converged on a reading that moved by at least
\* min_abs_change and whose error grew
W_C12 ==
    /\ op.name = "process_measurements"
    /\ called_in = PHASE_1_NEUTRAL_GREY
    /\ phase # PHASE_1_NEUTRAL_GREY
    /\ ret.adj = None
    /\ Len(history) >= 2
    /\ history[Len(history)].adj = EmptyDict
    /\ regressed(SubSeq(history, 1, Len(history) - 1), history[Len(history)].df)
    /\ get_lab_distance(anchor_of(history[Len(history)].df),
                        anchor_of(history[Len(history) - 1].df))
          >= Convergence.min_abs_change * Convergence.min_abs_change

\* the call does not converge: there is no history, or the reading moved by
\* at least min_abs_change and its error did not grow
not_converged(hist, df) ==
    \/ hist = <<>>
    \/ /\ get_lab_distance(anchor_of(df), anchor_of(hist[Len(hist)].df))
             >= Convergence.min_abs_change * Convergence.min_abs_change
       /\ ~regressed(hist, df)

\* C13: in Phase 1, a call that has not converged, whose suggested
\* adjustment is C = M = Y = 0 and whose anchor reading is outside the
\* target ranges, ends in ERROR with the 'no effective adjustment' message.
C13_ZeroAdjustmentOutsideTargetIsError ==
    \A df \in Batches :
        ( /\ phase = PHASE_1_NEUTRAL_GREY
          /\ get_patch_lab(df, Phase1Targets.patch_name) # None
          /\ not_converged(history, df)
          /\ suggest_adjustment(anchor_of(df), Phase1Targets, InkSteps)
                = [C |-> 0, M |-> 0, Y |-> 0]
          /\ ~is_patch_within_target(anchor_of(df), Phase1Targets) ) =>
            LET result == process_measurements(self, df)
            IN  /\ result.c.phase = ERROR
                /\ result.ret.text = NoEffectiveAdjustmentMsg

\* the three neutral patches are in the batch
has_neutral_patches(df) ==
    /\ get_patch_lab(df, Phase1Targets.patch_name) # None
    /\ get_patch_lab(df, Phase2Targets.rgb150_patch_name) # None
    /\ get_patch_lab(df, Phase2Targets.rgb200_patch_name) # None

\* strictly opposite signs
flips(x, y) == (x > 0 /\ y < 0) \/ (x < 0 /\ y > 0)

\* the a-error or the b-error changes sign from RGB100 to RGB150 or from
\* RGB150 to RGB200
sign_flips(df) ==
    LET p100 == anchor_of(df)
        p150 == Val(get_patch_lab(df, Phase2Targets.rgb150_patch_name))
        p200 == Val(get_patch_lab(df, Phase2Targets.rgb200_patch_name))
    IN  \/ flips(p100[2], p150[2]) \/ flips(p150[2], p200[2])
        \/ flips(p100[3], p150[3]) \/ flips(p150[3], p200[3])

\* RGB150 and RGB200 are within their absolute tolerances
within_slope_tolerances(df) ==
    LET p150 == Val(get_patch_lab(df, Phase2Targets.rgb150_patch_name))
        p200 == Val(get_patch_lab(df, Phase2Targets.rgb200_patch_name))
    IN  /\ -Phase2Targets.rgb150_a_tol <= p150[2]
        /\ p150[2] <= Phase2Targets.rgb150_a_tol
        /\ -Phase2Targets.rgb150_b_tol <= p150[3]
        /\ p150[3] <= Phase2Targets.rgb150_b_tol
        /\ -Phase2Targets.rgb200_a_tol <= p200[2]
        /\ p200[2] <= Phase2Targets.rgb200_a_tol
        /\ -Phase2Targets.rgb200_b_tol <= p200[3]
        /\ p200[3] <= Phase2Targets.rgb200_b_tol

\* the outcome the non-monotonic slope is to have
soft_stop(result) ==
    /\ result.raised = ""
    /\ result.c.phase = PHASE_3_DRIVER_LOCK
    /\ result.c.phase # ERROR
    /\ result.ret.text = NotMonotonicFreezingMsg
    /\ result.c.last_error_message = NotMonotonicMsg

\* C14 as stated: in Phase 2 every batch with the three neutral patches in
\* which a sign flips ends in PHASE_3_DRIVER_LOCK with the 'not monotonic'
\* message and never in ERROR.
C14_SignFlipIsSoftStop ==
    \A df \in Batches :
        ( /\ phase = PHASE_2_NEUTRAL_SLOPE
          /\ has_neutral_patches(df)
          /\ sign_flips(df) ) =>
            soft_stop(process_measurements(self, df))

\* C14 amended: in Phase 2 every batch with the three neutral patches whose
\* RGB150 and RGB200 readings are within their tolerances and in which a
\* sign flips ends in PHASE_3_DRIVER_LOCK with the 'not monotonic' message
\* and never in ERROR; a batch outside the tolerances ends in ERROR whether
\* or not a sign flips.
C14_SignFlipWithinToleranceIsSoftStop ==
    /\ \A df \in Batches :
          ( /\ phase = PHASE_2_NEUTRAL_SLOPE
            /\ has_neutral_patches(df) ) =>
              LET result == process_measurements(self, df)
              IN  /\ (within_slope_tolerances(df) /\ sign_flips(df))
                        => soft_stop(result)
                  /\ ~within_slope_tolerances(df)
                        => (result.c.phase = ERROR
                            /\ result.ret.text = SlopeFailedMsg)
    /\ ( /\ op.name = "process_measurements"
         /\ called_in = PHASE_2_NEUTRAL_SLOPE
         /\ ret.text = NotMonotonicFreezingMsg ) =>
            phase = PHASE_3_DRIVER_LOCK /\ last_error_message = NotMonotonicMsg

\* a Phase 2 call ended in the soft stop
W_C14 ==
    /\ op.name = "process_measurements"
    /\ called_in = PHASE_2_NEUTRAL_SLOPE
    /\ phase = PHASE_3_DRIVER_LOCK
    /\ ret.text = NotMonotonicFreezingMsg
    /\ last_error_message = NotMonotonicMsg

(***************************************************************************)
(* Phase 4.                                                                *)
(***************************************************************************)
\* the measured patch names the reference table knows
matched_names(df) ==
    {df[i].patch : i \in DOMAIN df} \cap DOMAIN get_reference_lab_values

\* C15 as stated: in PHASE_4_COLOR_ANALYSIS a batch with no patch of the
\* reference table fails with the explanatory report and the phase remains
\* PHASE_4_COLOR_ANALYSIS.
C15_NoMatchKeepsPhase ==
    \A df \in Batches :
        (phase = PHASE_4_COLOR_ANALYSIS /\ matched_names(df) = {}) =>
            LET result == process_measurements(self, df)
            IN  /\ result.ret.text = NoMatchReport
                /\ result.c.phase = PHASE_4_COLOR_ANALYSIS

\* C15 amended: in PHASE_4_COLOR_ANALYSIS a batch with no patch of the
\* reference table fails at once: the report is the explanatory text alone,
\* without statistics, the phase becomes ERROR, the failure is stored as the
\* last error, and the history and the retained batch stay as they were.
C15_NoMatchFailsWithoutStatistics ==
    \A df \in Batches :
        (phase = PHASE_4_COLOR_ANALYSIS /\ matched_names(df) = {}) =>
            LET result == process_measurements(self, df)
            IN  /\ result.raised = ""
                /\ result.ret.report = Some([text |-> NoMatchReport])
                /\ result.c = [self EXCEPT
                                  !.phase = ERROR,
                                  !.last_error_message = AnalysisFailedMsg]

\* a Phase 4 call answered with the bare no-match report
W_C15 ==
    /\ op.name = "process_measurements"
    /\ called_in = PHASE_4_COLOR_ANALYSIS
    /\ ret.report = Some([text |-> NoMatchReport])
    /\ last_error_message = AnalysisFailedMsg
    /\ history = <<>>
    /\ last_measurements_df = None

\* C16: in PHASE_4_COLOR_ANALYSIS a batch with no patch of the reference
\* table, such as one holding only 'Unknown1', returns a failure report and
\* the phase becomes ERROR.
C16_NoMatchIsError ==
    /\ \A df \in Batches :
          (phase = PHASE_4_COLOR_ANALYSIS /\ matched_names(df) = {}) =>
              LET result == process_measurements(self, df)
              IN  /\ result.ret.text = NoMatchReport
                  /\ result.c.phase = ERROR
    /\ phase = PHASE_4_COLOR_ANALYSIS =>
          process_measurements(self, <<Row("Unknown1", 200, 0, 0)>>).c.phase
              = ERROR
    /\ ( /\ op.name = "process_measurements"
         /\ called_in = PHASE_4_COLOR_ANALYSIS
         /\ ret.text = NoMatchReport ) => phase = ERROR

\* a Phase 4 call on a batch without a known patch ended in ERROR
W_C16 ==
    /\ op.name = "process_measurements"
    /\ called_in = PHASE_4_COLOR_ANALYSIS
    /\ ret.text = NoMatchReport
    /\ phase = ERROR

\* sum of d over the names in S
RECURSIVE SumOver(_, _)
SumOver(d, S) ==
    IF S = {} THEN 0
    ELSE LET x == CHOOSE y \in S : TRUE IN d[x] + SumOver(d, S \ {x})

\* the k-th smallest value of d, counting repetitions (k from 1)
kth_smallest(d, k) ==
    CHOOSE v \in {d[x] : x \in DOMAIN d} :
        /\ Cardinality({x \in DOMAIN d : d[x] < v}) < k
        /\ k <= Cardinality({x \in DOMAIN d : d[x] <= v})

\* twenty times the 95th percentile of d: the value at rank 0.95 * (n - 1)
\* among the ordered values, interpolated linearly between neighbours
p95_times_20(d) ==
    LET n == Cardinality(DOMAIN d)
        below == (19 * (n - 1)) \div 20 + 1
        twentieths == (19 * (n - 1)) % 20
    IN  IF twentieths = 0 THEN 20 * kth_smallest(d, below)
        ELSE (20 - twentieths) * kth_smallest(d, below)
             + twentieths * kth_smallest(d, below + 1)

\* the four checks on the colour differences of the matched patches
four_checks_pass(df) ==
    LET d == delta_es(df)
        n == Cardinality(DOMAIN d)
    IN  /\ SumOver(d, DOMAIN d) <= Phase4Targets.mean_delta_e * n
        /\ p95_times_20(d) <= 20 * Phase4Targets.percentile_95_delta_e
        /\ \A x \in DOMAIN d : d[x] <= Phase4Targets.max_delta_e
        /\ \A x \in (DOMAIN d) \cap Phase4Targets.skin_tone_names :
              d[x] <= Phase4Targets.skin_tone_delta_e
        /\ 0 <= Phase4Targets.skin_tone_delta_e

\* C17: in PHASE_4_COLOR_ANALYSIS with at least one matched patch, the call
\* advances to PHASE_5_ICC_CONSTRUCTION and retains exactly the submitted
\* batch if and only if the mean, the 95th percentile, the maximum and the
\* skin-tone maximum (0 without skin-tone patches) of the colour differences
\* are each at most their ceiling; a batch whose matched patches all have
\* zero colour difference passes.
C17_AdvancesIffFourChecksPass ==
    /\ \A df \in Batches :
          (phase = PHASE_4_COLOR_ANALYSIS /\ matched_names(df) # {}) =>
              LET result == process_measurements(self, df)
                  advanced ==
                      /\ result.c.phase = PHASE_5_ICC_CONSTRUCTION
                      /\ result.c.last_measurements_df = Some(df)
              IN  /\ advanced <=> four_checks_pass(df)
                  /\ ~advanced =>
                        /\ result.c.phase # PHASE_5_ICC_CONSTRUCTION
                        /\ result.c.last_measurements_df # Some(df)
                  /\ (\A x \in DOMAIN delta_es(df) : delta_es(df)[x] = 0)
                        => advanced
    /\ ( /\ op.name = "process_measurements"
         /\ called_in = PHASE_4_COLOR_ANALYSIS
         /\ phase = PHASE_5_ICC_CONSTRUCTION ) =>
            /\ last_measurements_df # None
            /\ matched_names(Val(last_measurements_df)) # {}
            /\ four_checks_pass(Val(last_measurements_df))

\* a Phase 4 call on the 24 patches of the chart, all measured exactly at
\* their reference values, advanced and retained the batch
W_C17 ==
    /\ op.name = "process_measurements"
    /\ called_in = PHASE_4_COLOR_ANALYSIS
    /\ phase = PHASE_5_ICC_CONSTRUCTION
    /\ last_measurements_df # None
    /\ Len(Val(last_measurements_df)) = 24
    /\ \A x \in DOMAIN delta_es(Val(last_measurements_df)) :
          delta_es(Val(last_measurements_df))[x] = 0

\* C18: in PHASE_4_COLOR_ANALYSIS, when one of the four checks fails, the
\* call ends in ERROR, returns the formatted report (whose overall verdict
\* is failure), stores the analysis-failed message as the last error and the
\* retained batch stays absent.
C18_FailedCheckIsError ==
    /\ \A df \in Batches :
          ( /\ phase = PHASE_4_COLOR_ANALYSIS
            /\ matched_names(df) # {}
            /\ ~four_checks_pass(df) ) =>
              LET result == process_measurements(self, df)
              IN  /\ result.raised = ""
                  /\ result.c.phase = ERROR
                  /\ result.ret.report
                        = Some(analyze_color_patches(df, Phase4Targets).report)
                  /\ \A rep \in result.ret.report :
                        /\ ~rep.overall
                        /\ ~(rep.mean_ok /\ rep.p95_ok /\ rep.max_ok /\ rep.skin_ok)
                  /\ result.c.last_error_message = AnalysisFailedMsg
                  /\ result.c.last_measurements_df = None
    /\ ( /\ op.name = "process_measurements"
         /\ called_in = PHASE_4_COLOR_ANALYSIS
         /\ phase = ERROR ) =>
            /\ last_error_message = AnalysisFailedMsg
            /\ last_measurements_df = None
            /\ ret.report # None

\* a Phase 4 call whose report shows a failed 95th-percentile check beside a
\* passed mean check ended in ERROR
W_C18 ==
    /\ op.name = "process_measurements"
    /\ called_in = PHASE_4_COLOR_ANALYSIS
    /\ phase = ERROR
    /\ last_error_message = AnalysisFailedMsg
    /\ last_measurements_df = None
    /\ \E rep \in ret.report :
          /\ rep.text # NoMatchReport
          /\ ~rep.overall
          /\ rep.mean_ok
          /\ ~rep.p95_ok

(***************************************************************************)
(* The adjustment advisor.                                                 *)
(***************************************************************************)
\* twice the a-error and twice the b-error of the reading the advisor was
\* given, and twice the tolerances (the doubling keeps the range centres
\* and half-widths integral)
a_error_x2 == 2 * Val(patch_lab)[2]
                  - (Phase1Targets.a_range[1] + Phase1Targets.a_range[2])

b_error_x2 == 2 * Val(patch_lab)[3]
                  - (Phase1Targets.b_range[1] + Phase1Targets.b_range[2])

a_tolerance_x2 == Phase1Targets.a_range[2] - Phase1Targets.a_range[1]

b_tolerance_x2 == Phase1Targets.b_range[2] - Phase1Targets.b_range[1]

\* one of the two errors is strictly beyond twice its tolerance
beyond_twice ==
    \/ a_error_x2 > 2 * a_tolerance_x2 \/ -a_error_x2 > 2 * a_tolerance_x2
    \/ b_error_x2 > 2 * b_tolerance_x2 \/ -b_error_x2 > 2 * b_tolerance_x2

\* the advisor has been applied to patch_lab
suggested == op.name = "suggest_adjustment" /\ ret.adj # None

Channels == {"C", "M", "Y"}

C20_NeverMixed ==
    suggested =>
        LET adj == Val(ret.adj)
        IN  /\ \A ch, other \in Channels :
                  (adj[ch] # 0 /\ adj[other] # 0) => adj[ch] = adj[other]
            /\ beyond_twice =>
                  \A ch \in Channels : adj[ch] \in {0, InkSteps.coarse}
            /\ ~beyond_twice =>
                  \A ch \in Channels : adj[ch] \in {0, InkSteps.fine}

\* C20 amended: coarse and fine steps are never mixed within a suggestion.
\* When escalated, all non-zero channels equal the coarse step.  Otherwise
\* every non-zero channel is one or two fine steps: Y is at most one, and C
\* (respectively M) is two fine steps exactly when the b-error exceeds its
\* tolerance upward and the a-error exceeds its tolerance upward
\* (respectively downward), each error having bumped the channel once.
C20_CoarseAndFineNeverMixed ==
    suggested =>
        LET adj == Val(ret.adj)
            a_upward == a_error_x2 > a_tolerance_x2
            a_downward == -a_error_x2 > a_tolerance_x2
            b_upward == b_error_x2 > b_tolerance_x2
        IN  /\ beyond_twice =>
                  /\ \A ch \in Channels : adj[ch] \in {0, InkSteps.coarse}
                  /\ \A ch, other \in Channels :
                        (adj[ch] # 0 /\ adj[other] # 0) => adj[ch] = adj[other]
            /\ ~beyond_twice =>
                  /\ \A ch \in Channels :
                        adj[ch] \in {0, InkSteps.fine, 2 * InkSteps.fine}
                  /\ adj.Y \in {0, InkSteps.fine}
                  /\ (a_upward /\ b_upward) <=> adj.C = 2 * InkSteps.fine
                  /\ (a_downward /\ b_upward) <=> adj.M = 2 * InkSteps.fine

\* the advisor escalated a reading whose a-error and b-error both exceed
\* their tolerance upward: C, bumped twice, and M are the coarse step
W_C20 ==
    /\ suggested
    /\ beyond_twice
    /\ a_error_x2 > a_tolerance_x2
    /\ b_error_x2 > b_tolerance_x2
    /\ Val(ret.adj) = [C |-> InkSteps.coarse, M |-> InkSteps.coarse, Y |-> 0]

(***************************************************************************)
(* Errors, queries and persistence.                                        *)
(***************************************************************************)
\* what process_measurements and export_icc do in ERROR, and that ERROR is
\* left by reset and set_phase only
error_is_inert ==
    /\ op'.name = "process_measurements" =>
          /\ ret'.text = NoActionMsg
          /\ raised' = ""
          /\ fields' = fields
    /\ op'.name = "export_icc" =>
          /\ ret'.text = WrongPhaseMsg
          /\ raised' = ""
          /\ ~icc_invoked'
          /\ fields' = fields
    /\ phase' # ERROR => op'.name \in {"reset", "set_phase"}

\* C21 as stated: once the phase is ERROR, process_measurements returns the
\* 'no action' message and export_icc the wrong-phase message, both leaving
\* the controller unchanged, and every reset or set_phase(X) leaves ERROR.
C21_ErrorLeftByEveryOverride ==
    [][phase = ERROR =>
          /\ error_is_inert
          /\ op'.name \in {"reset", "set_phase"} => phase' # ERROR]_vars

\* C21 amended: once the phase is ERROR, process_measurements returns the
\* 'no action' message and export_icc the wrong-phase message, both leaving
\* the controller unchanged; ERROR is left by reset and set_phase only;
\* reset gives PRECONDITION and set_phase(X) gives X, which leaves ERROR
\* unless X is ERROR itself.
C21_ErrorLeftOnlyByOverride ==
    [][phase = ERROR =>
          /\ error_is_inert
          /\ op'.name = "reset" => phase' = PRECONDITION
          /\ op'.name = "set_phase" =>
                /\ phase' = op'.ph
                /\ phase' = ERROR <=> op'.ph = ERROR]_vars

\* a batch submitted in ERROR got the 'no action' message and the stored
\* error stayed
W_C21 ==
    /\ op.name = "process_measurements"
    /\ called_in = ERROR
    /\ phase = ERROR
    /\ ret.text = NoActionMsg
    /\ last_error_message # ""

\* the patches among the required ones that the batch does not hold
missing_patches(df, required) ==
    {name \in required : \A i \in DOMAIN df : df[i].patch # name}

NeutralPatchNames == {"RGB100", "RGB150", "RGB200"}

\* the outcome a missing patch is to have
missing_patch_error(result, missing) ==
    /\ result.raised = ""
    /\ result.c.phase = ERROR
    /\ result.ret.text # ""
    /\ result.c.last_error_message = result.ret.text
    /\ missing \subseteq patches_named_in(result.ret.text)

\* C22: when a required patch is absent from the batch (RGB100 in Phase 1,
\* any of RGB100, RGB150, RGB200 in Phase 2), process_measurements ends in
\* ERROR and returns a message, stored as the last error message too, that
\* names the missing patches.
C22_MissingPatchIsError ==
    /\ \A df \in Batches :
          LET result == process_measurements(self, df)
          IN  /\ ( /\ phase \in {PRECONDITION, PHASE_1_NEUTRAL_GREY}
                   /\ missing_patches(df, {"RGB100"}) # {} ) =>
                      missing_patch_error(result, missing_patches(df, {"RGB100"}))
              /\ ( /\ phase = PHASE_2_NEUTRAL_SLOPE
                   /\ missing_patches(df, NeutralPatchNames) # {} ) =>
                      missing_patch_error(result,
                                          missing_patches(df, NeutralPatchNames))
    /\ ( /\ op.name = "process_measurements"
         /\ ret.text \in {PatchNotFoundMsg, NeutralMissingMsg} ) =>
            phase = ERROR /\ last_error_message = ret.text

\* a Phase 2 call on a batch without one of the neutral patches ended in
\* ERROR with the message stored
W_C22 ==
    /\ op.name = "process_measurements"
    /\ called_in = PHASE_2_NEUTRAL_SLOPE
    /\ phase = ERROR
    /\ ret.text = NeutralMissingMsg
    /\ last_error_message = NeutralMissingMsg

\* C23: get_next_action is a pure query: it changes neither phase, history,
\* last error message nor retained batch; outside ERROR the string it
\* returns is the fixed string of the phase, the same whatever the rest of
\* the state; in ERROR it is the error string with the stored last error
\* message.
C23_NextActionIsPureQuery ==
    [][op'.name = "get_next_action" =>
          /\ fields' = fields
          /\ raised' = ""
          /\ ret'.text = NextActionText[phase]
          /\ ret' = get_next_action(Controller(phase, <<>>, last_error_message,
                                               None)).ret
          /\ phase # ERROR =>
                /\ ret' = get_next_action(set_phase(NewController, phase)).ret
                /\ ret'.detail = ""
          /\ phase = ERROR => ret'.detail = last_error_message
          /\ \A other \in CalibrationPhase \ {phase} :
                ret'.text # NextActionText[other]]_vars

\* the hint asked for in ERROR with a stored message, beside a history
W_C23 ==
    /\ op.name = "get_next_action"
    /\ phase = ERROR
    /\ ret.detail = last_error_message
    /\ last_error_message # ""

\* C24: saving the controller's state and loading it gives a controller
\* with the same phase and history: the save and the load the GUI makes
\* through save_state and load_state complete, and the load leaves the
\* phase and history that were saved.
C24_SaveLoadReconstructs ==
    [][op'.name \in {"save_state", "load_state"} =>
          /\ raised' = ""
          /\ phase' = phase
          /\ history' = history]_vars

(***************************************************************************)
(* The measurement loader.                                                 *)
(***************************************************************************)
\* the column set the documentation names and 'Save to CSV' writes
DocumentedHeader == {<<"patch">>, <<"rgb">>, <<"L">>, <<"a">>, <<"b">>}

\* a column of the header is the required one up to case and surrounding
\* blanks
has_column(header, required) ==
    \E col \in header : column_key(col) = column_key(required)

\* C25: load_csv accepts a file whose header is patch, rgb, L, a, b, and
\* it fails with ValueError only when, after case-insensitive and
\* whitespace normalisation of the column names, one of patch, L, a, b is
\* missing.
C25_LoadCsvAcceptsDocumentedHeader ==
    op.name = "load_csv" =>
        /\ csv_columns = DocumentedHeader =>
              /\ raised = ""
              /\ loaded_columns # None
              /\ CANONICAL_ANALYSIS_COLUMNS \subseteq Val(loaded_columns)
        /\ raised = "ValueError" =>
              \E required \in CANONICAL_ANALYSIS_COLUMNS :
                  ~has_column(csv_columns, required)

(***************************************************************************)
(* Phase 1 and Phase 2 in detail.                                          *)
(***************************************************************************)
\* square of x
sq(x) == x * x

\* the convergence rule on the squares: the distance over L, a and b from
\* the anchor reading of the last history entry is below min_abs_change, or
\* the distance of (a, b) from the target centre has grown
convergence_rule(hist, df) ==
    /\ hist # <<>>
    /\ LET cur == anchor_of(df)
           prev == anchor_of(hist[Len(hist)].df)
           a_centre_x2 == Phase1Targets.a_range[1] + Phase1Targets.a_range[2]
           b_centre_x2 == Phase1Targets.b_range[1] + Phase1Targets.b_range[2]
           error_x2_sq(lab) ==
               sq(2 * lab[2] - a_centre_x2) + sq(2 * lab[3] - b_centre_x2)
       IN  \/ sq(cur[1] - prev[1]) + sq(cur[2] - prev[2]) + sq(cur[3] - prev[3])
                < sq(Convergence.min_abs_change)
           \/ error_x2_sq(cur) > error_x2_sq(prev)

\* a call made in Phase 1 (or PRECONDITION) on a batch with the anchor patch
phase1_call(df) ==
    /\ phase \in {PRECONDITION, PHASE_1_NEUTRAL_GREY}
    /\ missing_patches(df, {"RGB100"}) = {}

\* C26: with an empty history a Phase 1 call is never converged; with a
\* non-empty history it is converged if and only if the distance over the
\* three coordinates between the current anchor reading and that of the
\* last history entry is strictly below the minimal-change threshold or the
\* current two-coordinate error is strictly greater than the previous one.
\* A converged call leaves Phase 1 without a suggestion; a call that is not
\* converged returns a suggestion and stays in Phase 1.
C26_ConvergenceRule ==
    \A df \in Batches :
        phase1_call(df) =>
            LET result == process_measurements(self, df)
                converged == result.ret.text # SuggestionMsg
            IN  /\ result.raised = ""
                /\ history = <<>> => ~converged
                /\ converged <=> convergence_rule(history, df)
                /\ converged => result.c.phase \in {PHASE_3_DRIVER_LOCK, ERROR}
                /\ ~converged => result.c.phase = PHASE_1_NEUTRAL_GREY

\* a Phase 1 call whose reading moved by exactly min_abs_change, the error
\* not growing, did not converge
W_C26 ==
    /\ op.name = "process_measurements"
    /\ called_in = PHASE_1_NEUTRAL_GREY
    /\ phase = PHASE_1_NEUTRAL_GREY
    /\ ret.text = SuggestionMsg
    /\ Len(history) >= 2
    /\ LET cur == anchor_of(history[Len(history)].df)
           prev == anchor_of(history[Len(history) - 1].df)
       IN  sq(cur[1] - prev[1]) + sq(cur[2] - prev[2]) + sq(cur[3] - prev[3])
               = sq(Convergence.min_abs_change)

\* L, a and b are within the target ranges, bounds included
within_ranges(lab) ==
    /\ Phase1Targets.L_range[1] <= lab[1] /\ lab[1] <= Phase1Targets.L_range[2]
    /\ Phase1Targets.a_range[1] <= lab[2] /\ lab[2] <= Phase1Targets.a_range[2]
    /\ Phase1Targets.b_range[1] <= lab[3] /\ lab[3] <= Phase1Targets.b_range[2]

\* C27: when a Phase 1 call converges and the anchor reading is within the
\* target ranges (bounds included), the batch is appended to the history
\* with an empty suggestion and the Phase 2 handler runs on the same batch
\* in the same call, which ends in PHASE_3_DRIVER_LOCK or ERROR; when it
\* converges outside the ranges the phase becomes PHASE_3_DRIVER_LOCK with
\* the 'converged but outside target' message and the history is unchanged.
C27_ConvergedOutcome ==
    \A df \in Batches :
        (phase1_call(df) /\ convergence_rule(history, df)) =>
            LET result == process_measurements(self, df)
                phase2 == process_measurements(
                              set_phase(self, PHASE_2_NEUTRAL_SLOPE), df)
            IN  /\ within_ranges(anchor_of(df)) =>
                      /\ result.c.history
                            = Append(history, [df |-> df, adj |-> EmptyDict])
                      /\ result.ret = phase2.ret
                      /\ result.c.phase = phase2.c.phase
                      /\ result.c.phase \in {PHASE_3_DRIVER_LOCK, ERROR}
                /\ ~within_ranges(anchor_of(df)) =>
                      /\ result.c.phase = PHASE_3_DRIVER_LOCK
                      /\ result.ret.text = ConvergedOutsideMsg
                      /\ result.c.history = history

\* a Phase 1 call converged on a reading with a at the upper bound of its
\* range and went through Phase 2
W_C27 ==
    /\ op.name = "process_measurements"
    /\ called_in = PHASE_1_NEUTRAL_GREY
    /\ phase = PHASE_3_DRIVER_LOCK
    /\ Len(history) >= 2
    /\ history[Len(history)].adj = EmptyDict
    /\ anchor_of(history[Len(history)].df)[2] = Phase1Targets.a_range[2]

\* C28: when a Phase 1 call has not converged and the suggestion has a
\* non-zero channel, exactly one (batch, suggestion) pair is appended to the
\* history, the phase is PHASE_1_NEUTRAL_GREY after the call, the last error
\* message and the retained batch are unchanged and the suggestion message
\* is returned.
C28_SuggestionRecorded ==
    \A df \in Batches :
        LET adjustment == suggest_adjustment(anchor_of(df), Phase1Targets,
                                             InkSteps)
        IN  ( /\ phase1_call(df)
              /\ ~convergence_rule(history, df)
              /\ \E ch \in DOMAIN adjustment : adjustment[ch] # 0 ) =>
                LET result == process_measurements(self, df)
                IN  /\ result.c.history
                          = Append(history, [df |-> df, adj |-> adjustment])
                    /\ result.c.phase = PHASE_1_NEUTRAL_GREY
                    /\ result.c.last_error_message = last_error_message
                    /\ result.c.last_measurements_df = last_measurements_df
                    /\ result.ret.text = SuggestionMsg
                    /\ result.ret.adj = Some(adjustment)

\* a Phase 1 call returned a suggestion with a non-zero channel, the one it
\* recorded
W_C28 ==
    /\ op.name = "process_measurements"
    /\ called_in = PHASE_1_NEUTRAL_GREY
    /\ phase = PHASE_1_NEUTRAL_GREY
    /\ ret.text = SuggestionMsg
    /\ ret.adj # None
    /\ \E ch \in DOMAIN Val(ret.adj) : Val(ret.adj)[ch] # 0
    /\ history # <<>>
    /\ history[Len(history)].adj = Val(ret.adj)

\* C29: in Phase 2 with the three patches present, RGB150 or RGB200 with
\* |a| or |b| strictly above its tolerance gives ERROR, whether or not the
\* slope is monotonic; a batch whose values are at or below the tolerances
\* ends in PHASE_3_DRIVER_LOCK.
C29_ToleranceBeforeMonotonicity ==
    /\ \A df \in Batches :
          (phase = PHASE_2_NEUTRAL_SLOPE /\ has_neutral_patches(df)) =>
              LET result == process_measurements(self, df)
              IN  /\ ~within_slope_tolerances(df) =>
                        /\ result.c.phase = ERROR
                        /\ result.ret.text = SlopeFailedMsg
                        /\ result.c.last_error_message = SlopeFailedMsg
                  /\ within_slope_tolerances(df) =>
                        result.c.phase = PHASE_3_DRIVER_LOCK
    /\ ( /\ op.name = "process_measurements"
         /\ called_in = PHASE_2_NEUTRAL_SLOPE
         /\ ret.text = SlopeFailedMsg ) => phase = ERROR

\* a Phase 2 call on a batch outside the tolerances ended in ERROR
W_C29 ==
    /\ op.name = "process_measurements"
    /\ called_in = PHASE_2_NEUTRAL_SLOPE
    /\ phase = ERROR
    /\ ret.text = SlopeFailedMsg
    /\ last_error_message = SlopeFailedMsg

(***************************************************************************)
(* The direction rules of the advisor.                                     *)
(***************************************************************************)
\* 1 when the condition holds, 0 otherwise
count(condition) == IF condition THEN 1 ELSE 0

\* C30: starting from C = M = Y = 0, an a-error above +a-tolerance adds the
\* fine step to C and one below -a-tolerance adds it to M; a b-error above
\* +b-tolerance adds the fine step to both C and M and one below
\* -b-tolerance adds it to Y; an error at or within its tolerance adds
\* nothing, and the a-error never bumps Y.  Without escalation the channels
\* are these sums; with escalation the same channels are the non-zero ones.
C30_DirectionRules ==
    suggested =>
        LET adj == Val(ret.adj)
            a_above == a_error_x2 > a_tolerance_x2
            a_below == a_error_x2 < -a_tolerance_x2
            b_above == b_error_x2 > b_tolerance_x2
            b_below == b_error_x2 < -b_tolerance_x2
            bumps == [C |-> count(a_above) + count(b_above),
                      M |-> count(a_below) + count(b_above),
                      Y |-> count(b_below)]
        IN  /\ ~beyond_twice =>
                  \A ch \in Channels : adj[ch] = bumps[ch] * InkSteps.fine
            /\ \A ch \in Channels : adj[ch] # 0 <=> bumps[ch] # 0
            /\ (~a_above /\ ~a_below /\ ~b_above /\ ~b_below) =>
                  adj = [C |-> 0, M |-> 0, Y |-> 0]
            /\ adj.Y # 0 <=> b_below

\* the advisor bumped M alone for an a-error below the tolerance, the
\* b-error being exactly at its tolerance
W_C30 ==
    /\ suggested
    /\ a_error_x2 < -a_tolerance_x2
    /\ b_error_x2 = b_tolerance_x2
    /\ ~beyond_twice
    /\ Val(ret.adj) = [C |-> 0, M |-> InkSteps.fine, Y |-> 0]

(***************************************************************************)
(* Frame conditions and reachability.                                      *)
(***************************************************************************)
\* rows whose patch the reference table knows
is_known_row(r) == r.patch \in DOMAIN get_reference_lab_values

\* a row the reference table has no entry for
unknown_row == Row("Unknown2", 200, 0, 0)

\* the batch without its unknown rows, and with an unknown row added at the
\* end and at the beginning
unknown_row_variants(df) ==
    {SelectSeq(df, is_known_row), Append(df, unknown_row), <<unknown_row>> \o df}

\* C31: in PHASE_4_COLOR_ANALYSIS, for a batch with at least one patch of
\* the reference table, removing the rows whose patch is not in the table or
\* adding such a row changes neither the report (verdict and statistics)
\* nor the phase after the call; only the reference patches are compared.
C31_UnknownRowsAreSkipped ==
    \A df \in Batches :
        (phase = PHASE_4_COLOR_ANALYSIS /\ matched_names(df) # {}) =>
            LET result == process_measurements(self, df)
            IN  /\ DOMAIN delta_es(df) = matched_names(df)
                /\ \A other \in unknown_row_variants(df) :
                      LET changed == process_measurements(self, other)
                      IN  /\ matched_names(other) = matched_names(df)
                          /\ changed.raised = result.raised
                          /\ changed.ret.report = result.ret.report
                          /\ changed.c.phase = result.c.phase
                          /\ changed.c.phase
                                \in {PHASE_5_ICC_CONSTRUCTION, ERROR}

\* a Phase 4 call passed on a batch holding a reference patch and a row
\* the reference table does not know
W_C31 ==
    /\ op.name = "process_measurements"
    /\ called_in = PHASE_4_COLOR_ANALYSIS
    /\ phase = PHASE_5_ICC_CONSTRUCTION
    /\ last_measurements_df # None
    /\ \E i \in DOMAIN Val(last_measurements_df) :
          ~is_known_row(Val(last_measurements_df)[i])
    /\ \E i \in DOMAIN Val(last_measurements_df) :
          is_known_row(Val(last_measurements_df)[i])

\* C32: a fresh controller driven by process_measurements, export_icc and
\* reset alone never reaches PHASE_4_COLOR_ANALYSIS,
\* PHASE_5_ICC_CONSTRUCTION or COMPLETE; once it is in PHASE_3_DRIVER_LOCK
\* or ERROR no batch and no export moves it, so the guided flow ends there.
C32_GuidedFlowStopsAtDriverLock ==
    /\ phase \notin {PHASE_4_COLOR_ANALYSIS, PHASE_5_ICC_CONSTRUCTION, COMPLETE}
    /\ last_measurements_df = None
    /\ phase \in {PHASE_3_DRIVER_LOCK, ERROR} =>
          /\ \A df \in Batches :
                process_measurements(self, df).c.phase = phase
          /\ \A filename \in Filenames, io_ok \in BOOLEAN :
                export_icc(self, filename, io_ok).c.phase = phase
    /\ phase \in {PRECONDITION, PHASE_1_NEUTRAL_GREY} =>
          \A df \in Batches :
              process_measurements(self, df).c.phase
                  \in {PHASE_1_NEUTRAL_GREY, PHASE_3_DRIVER_LOCK, ERROR}

\* the guided flow converged outside the target and stopped in
\* PHASE_3_DRIVER_LOCK
W_C32 ==
    /\ op.name = "process_measurements"
    /\ called_in = PHASE_1_NEUTRAL_GREY
    /\ phase = PHASE_3_DRIVER_LOCK
    /\ ret.text = ConvergedOutsideMsg

\* C33 as stated: the phase is PHASE_2_NEUTRAL_SLOPE only in the state that
\* set_phase(PHASE_2_NEUTRAL_SLOPE) itself produced.
C33_Phase2OnlyRightAfterSetPhase ==
    phase = PHASE_2_NEUTRAL_SLOPE =>
        op = Call("set_phase", PHASE_2_NEUTRAL_SLOPE)

\* C33 amended: after process_measurements returns, the phase is neither
\* PRECONDITION nor PHASE_2_NEUTRAL_SLOPE; a call that runs the Phase 2
\* handler ends in PHASE_3_DRIVER_LOCK or ERROR; the phase becomes
\* PHASE_2_NEUTRAL_SLOPE only by set_phase(PHASE_2_NEUTRAL_SLOPE) and stays
\* so through export_icc and get_next_action until the next
\* process_measurements, set_phase or reset.
C33_Phase2ResolvedWithinTheCall ==
    [][/\ op'.name = "process_measurements" =>
             /\ phase' \notin {PRECONDITION, PHASE_2_NEUTRAL_SLOPE}
             /\ phase = PHASE_2_NEUTRAL_SLOPE =>
                   phase' \in {PHASE_3_DRIVER_LOCK, ERROR}
       /\ (phase # PHASE_2_NEUTRAL_SLOPE /\ phase' = PHASE_2_NEUTRAL_SLOPE) =>
             op' = Call("set_phase", PHASE_2_NEUTRAL_SLOPE)
       /\ (phase = PHASE_2_NEUTRAL_SLOPE
             /\ op'.name \in {"export_icc", "get_next_action"}) =>
             phase' = PHASE_2_NEUTRAL_SLOPE
       /\ (phase = PHASE_2_NEUTRAL_SLOPE /\ phase' # PHASE_2_NEUTRAL_SLOPE) =>
             op'.name \in {"process_measurements", "set_phase", "reset"}]_vars

\* a batch submitted after set_phase(PHASE_2_NEUTRAL_SLOPE) passed the slope
\* validation and the call ended in PHASE_3_DRIVER_LOCK
W_C33 ==
    /\ op.name = "process_measurements"
    /\ called_in = PHASE_2_NEUTRAL_SLOPE
    /\ phase = PHASE_3_DRIVER_LOCK
    /\ ret.text = Phase2PassedMsg

\* C34: a retained batch is present only in PHASE_5_ICC_CONSTRUCTION or
\* COMPLETE; it appears only in a process_measurements call made in
\* PHASE_4_COLOR_ANALYSIS whose analysis passed, and once present it is
\* changed only by set_phase or reset, which remove it.
C34_RetainedBatchLifecycle ==
    [][/\ last_measurements_df' # None =>
             phase' \in {PHASE_5_ICC_CONSTRUCTION, COMPLETE}
       /\ (last_measurements_df = None /\ last_measurements_df' # None) =>
             /\ op'.name = "process_measurements"
             /\ phase = PHASE_4_COLOR_ANALYSIS
             /\ phase' = PHASE_5_ICC_CONSTRUCTION
             /\ ret'.report # None
             /\ Val(ret'.report).overall
             /\ four_checks_pass(Val(last_measurements_df'))
       /\ (last_measurements_df # None
             /\ last_measurements_df' # last_measurements_df) =>
             /\ op'.name \in {"set_phase", "reset"}
             /\ last_measurements_df' = None]_vars

\* the retained batch survived a successful export
W_C34 ==
    /\ op.name = "export_icc"
    /\ called_in = PHASE_5_ICC_CONSTRUCTION
    /\ phase = COMPLETE
    /\ last_measurements_df # None

C36_ErrorHasMessage ==
    [][/\ ( /\ op'.name \in {"process_measurements", "export_icc"}
            /\ phase # ERROR
            /\ phase' = ERROR ) =>
             /\ last_error_message' # ""
             /\ last_error_message' # last_error_message
       /\ phase' = ERROR =>
             /\ last_error_message' # ""
             /\ get_next_action(Controller(phase', history', last_error_message',
                                           last_measurements_df')).ret
                   = [Msg(NextActionText[ERROR]) EXCEPT
                         !.detail = last_error_message']]_vars

\* get_next_action in ERROR reported the stored message of a failed slope
\* validation
W_C36 ==
    /\ op.name = "get_next_action"
    /\ phase = ERROR
    /\ last_error_message = SlopeFailedMsg
    /\ ret.detail = SlopeFailedMsg

\* C37: in the GUI, an export succeeds only from PHASE_5_ICC_CONSTRUCTION
\* and ends in COMPLETE with the batch still retained; in COMPLETE the
\* export controls stay enabled, every export is rejected with the
\* wrong-phase message without running the exporter and without changing
\* the controller, and COMPLETE is left only by a skip (set_phase) or a
\* reset: between two of those at most one export succeeds.
C37_AtMostOneExportSucceeds ==
    [][/\ (op'.name = "export_icc" /\ ret'.text = ExportedMsg) =>
             /\ phase = PHASE_5_ICC_CONSTRUCTION
             /\ phase' = COMPLETE
             /\ last_measurements_df # None
             /\ last_measurements_df' = last_measurements_df
       /\ phase' = COMPLETE =>
             /\ refresh_observed' = Some(COMPLETE)
             /\ is_ready(Val(refresh_observed'))
             /\ last_measurements_df' # None
       /\ phase = COMPLETE =>
             /\ \A filename \in Filenames, io_ok \in BOOLEAN :
                   export_icc(self, filename, io_ok)
                       = Returned(self, Msg(WrongPhaseMsg))
             /\ op'.name = "export_icc" =>
                   /\ ret' = Msg(WrongPhaseMsg)
                   /\ ~icc_invoked'
                   /\ fields' = fields
             /\ phase' # COMPLETE =>
                   op'.name \in {"skip_to_phase", "reset_calibration"}]_vars

\* a second export, clicked in COMPLETE, was rejected
W_C37 ==
    /\ op.name = "export_icc"
    /\ called_in = COMPLETE
    /\ phase = COMPLETE
    /\ ret = Msg(WrongPhaseMsg)
    /\ refresh_observed = Some(COMPLETE)
    /\ last_measurements_df # None

\* C38: in the GUI, a status refresh that reads PHASE_3_DRIVER_LOCK leaves
\* the controller in PHASE_4_COLOR_ANALYSIS with the history, the last error
\* and the retained batch cleared and queues another refresh; so after every
\* handler the phase is not PHASE_3_DRIVER_LOCK, the queued refresh changes
\* nothing, and the next batch gets the Phase 4 report.
C38_DriverLockIsSkippedByRefresh ==
    [][/\ (refresh_observed' = Some(PHASE_3_DRIVER_LOCK) /\ raised' = "") =>
             /\ phase' = PHASE_4_COLOR_ANALYSIS
             /\ history' = <<>>
             /\ last_error_message' = ""
             /\ last_measurements_df' = None
             /\ pending_refreshes' > 0
             /\ op'.name \in {"process_dataframe", "skip_to_phase"} =>
                   pending_refreshes' = pending_refreshes + 1
       /\ phase' # PHASE_3_DRIVER_LOCK
       /\ op'.name = "update_status_display" =>
             /\ fields' = fields
             /\ pending_refreshes' = pending_refreshes - 1
       /\ refresh_observed = Some(PHASE_3_DRIVER_LOCK) =>
             /\ update_status_display(self).c = self
             /\ \A df \in Batches :
                   process_measurements(update_status_display(self).c, df)
                       = _process_phase4(self, df)
             /\ op'.name = "process_dataframe" =>
                   /\ called_in' = PHASE_4_COLOR_ANALYSIS
                   /\ ret'.report # None]_vars

\* a batch passed the slope validation, the refresh that followed read
\* PHASE_3_DRIVER_LOCK, moved the controller to PHASE_4_COLOR_ANALYSIS and
\* queued a refresh
W_C38 ==
    /\ op.name = "process_dataframe"
    /\ ret.text = Phase2PassedMsg
    /\ refresh_observed = Some(PHASE_3_DRIVER_LOCK)
    /\ phase = PHASE_4_COLOR_ANALYSIS
    /\ history = <<>>
    /\ pending_refreshes > 0

C40_HistoryFrame ==
    [][/\ history' # history =>
             \/ op'.name \in {"set_phase", "reset"}
             \/ /\ op'.name = "process_measurements"
                /\ phase \in {PRECONDITION, PHASE_1_NEUTRAL_GREY}
       /\ ( /\ op'.name = "process_measurements"
            /\ phase \in {PHASE_2_NEUTRAL_SLOPE, PHASE_4_COLOR_ANALYSIS,
                          ERROR} \cup LockedPhases ) =>
             history' = history
       /\ op'.name = "export_icc" => history' = history
       /\ op'.name = "process_measurements" =>
             \/ history' = history
             \/ /\ Len(history') = Len(history) + 1
                /\ IsPrefix(history, history')
       /\ \A i \in DOMAIN history' :
             /\ get_patch_lab(history'[i].df, Phase1Targets.patch_name) # None
             /\ missing_patches(history'[i].df, {Phase1Targets.patch_name}) = {}]_vars

\* an export rejected in Phase 1 left the recorded suggestions in place
W_C40 ==
    /\ op.name = "export_icc"
    /\ called_in = PHASE_1_NEUTRAL_GREY
    /\ ret.text = WrongPhaseMsg
    /\ Len(history) >= 2

====
